---- MODULE Spec2Model ----
(***************************************************************************)
(* The AI-response resilience layer of LectureRoom: retryWithBackoff (the  *)
(* Resilient Invoker) and the typed accessors of services/geminiService    *)
(* built on it.  The repository holds two editions of the service: the one *)
(* with demo mode (src/components/Login.tsx, lines 64-620) and the one     *)
(* without (src/unnamed/part_003).  retryWithBackoff is the same in both.  *)
(*                                                                         *)
(* A JavaScript string is modelled as a sequence of tokens; a token is a   *)
(* run of characters that holds no separator and no white space, or one    *)
(* separator or white-space character.  An optional value is a sequence of *)
(* length 0 (undefined) or 1.                                              *)
(***************************************************************************)
EXTENDS Integers, Sequences, FiniteSets, TLC

VARIABLES
    pc,         \* "idle", "inflight" (fn awaited), "waiting" (backoff timer), "done"
    op,         \* the operation wrapped by the current retryWithBackoff call
    policy,     \* the arguments of the outermost retryWithBackoff call
    retries,    \* parameter `retries` of the current retryWithBackoff frame
    delay,      \* parameter `delay` of the current retryWithBackoff frame
    attempts,   \* invocations of fn made by the current call
    waits,      \* the backoff waits of the current call, in order
    lastError,  \* the error of the last rejected attempt
    outcome,    \* "none", "returned" or "thrown"
    result,     \* the value the call returned
    thrown,     \* the error the call threw
    edition,    \* which edition of the service is loaded: "demo" or "plain"
    apiKey,     \* process.env.API_KEY
    isMockMode, \* module constant isMockMode of the demo edition
    mockPrograms, \* module-level array mockPrograms of the demo edition
    response,   \* the response the last network call resolved with
    netError,   \* the error the last network call rejected with
    parsed,     \* the array the accessor's parser filled from the last response
    requested,  \* a request has gone to the external AI service since the load
    calls,      \* the retryWithBackoff calls that run side by side (SpecConc)
    quizView,   \* the state, refs and props of the mounted QuizView (SpecQuiz)
    app,        \* the state of App, its pending calls and timers (SpecApp)
    localStorage, \* window.localStorage: key -> optional string
    registered, \* the profile object last written under each email
    dashboard   \* the chat and favourites state of Dashboard (SpecChat, SpecFavorites)

invokerVars == <<pc, op, policy, retries, delay, attempts, waits, lastError,
                 outcome, result, thrown>>
moduleVars == <<edition, apiKey, isMockMode, mockPrograms>>
serviceVars == <<invokerVars, moduleVars, response, netError, parsed, requested>>
uiVars == <<quizView, app, localStorage, registered, dashboard>>
vars == <<serviceVars, calls, uiVars>>

----------------------------------------------------------------------------
(* Optional values and strings                                              *)

None == <<>>
Some(x) == <<x>>

RECURSIVE StrLen(_)
StrLen(s) == IF s = <<>> THEN 0 ELSE Len(Head(s)) + StrLen(Tail(s))

\* String.prototype.includes: needle occurs in hay as a contiguous run.
Includes(hay, needle) ==
    \E i \in 0..(Len(hay) - Len(needle)) :
        SubSeq(hay, i + 1, i + Len(needle)) = needle

\* String.prototype.split with a non-empty separator: the pieces of s from
\* index `from` on, cut at each leftmost occurrence of sep.
RECURSIVE SplitFrom(_, _, _)
SplitFrom(s, sep, from) ==
    LET found == {i \in from..(Len(s) - Len(sep) + 1) :
                      SubSeq(s, i, i + Len(sep) - 1) = sep}
    IN  IF found = {} THEN <<SubSeq(s, from, Len(s))>>
        ELSE LET at == CHOOSE i \in found : \A j \in found : i <= j
             IN  <<SubSeq(s, from, at - 1)>> \o SplitFrom(s, sep, at + Len(sep))

Split(s, sep) == SplitFrom(s, sep, 1)

WhiteSpace == {" ", "\n", "\t"}
\* the characters of the model's alphabet that \W matches
NonWord == WhiteSpace \cup {"|", "$", "#", "-", "*", "."}

\* s without its longest prefix of characters of `chars`
DropLeading(s, chars) ==
    LET kept == {i \in 1..Len(s) : s[i] \notin chars}
    IN  IF kept = {} THEN <<>>
        ELSE SubSeq(s, CHOOSE i \in kept : \A j \in kept : i <= j, Len(s))

TrimStart(s) == DropLeading(s, WhiteSpace)

TrimEnd(s) ==
    LET kept == {i \in 1..Len(s) : s[i] \notin WhiteSpace}
    IN  IF kept = {} THEN <<>>
        ELSE SubSeq(s, 1, CHOOSE i \in kept : \A j \in kept : i >= j)

\* String.prototype.trim
Trim(s) == TrimEnd(TrimStart(s))

\* s.replace(/^\W+/, '')
StripLeadingNonWord(s) == DropLeading(s, NonWord)

\* Array.prototype.map, filter and slice(0, n)
Map(s, F(_)) == [i \in 1..Len(s) |-> F(s[i])]
Filter(s, T(_)) == SelectSeq(s, T)
Slice0(s, n) == SubSeq(s, 1, IF Len(s) < n THEN Len(s) ELSE n)

RECURSIVE Join(_, _)
Join(parts, sep) ==
    IF parts = <<>> THEN <<>>
    ELSE IF Len(parts) = 1 THEN parts[1]
    ELSE parts[1] \o sep \o Join(Tail(parts), sep)

----------------------------------------------------------------------------
(* Bounds of the model                                                      *)

MaxRetries == 3          \* largest `retries` argument tried
MaxDelayUnits == 2       \* `delay` arguments tried: 1000 * (1..MaxDelayUnits)
MaxPrograms == 5         \* most segments of a program-list response
MaxNews == 5             \* most segments of a news or book-search response
MaxLines == 9            \* most lines of a subjects response
MaxBooks == 2            \* most books of a recommendation response
MaxOdd == 1              \* most segments of a response that are not the regular one
MaxCalls == 2            \* retryWithBackoff calls that run side by side
MaxQuestions == 2        \* most questions of a quiz
MaxOptions == 2          \* options of a question
MaxNow == 3              \* seconds followed after a QuizView is mounted
MaxImmediate == 3        \* immediateScore is followed up to this value
MaxFetches == 2          \* fetchQuiz calls of one QuizView pending at a time
MaxPending == 1          \* handleStartCourse calls awaiting their outline
MaxCompletions == 2      \* quiz completions followed after a page load
MaxTimers == 1           \* timers of handleSaveProfile waiting to fire
MaxSent == 2             \* chat messages sent while Dashboard is mounted

(* Program constants                                                        *)

DefaultRetries == 3
DefaultDelay == 2000
Multiplier == 2
MinKeyLength == 5
MinProgramLength == 3    \* a program name is kept when longer than this
MinProgramCount == 5     \* plain edition: below this the text is re-read by lines
MinLineLength == 5       \* plain edition: a line is kept when longer than this
MinFields == 3           \* fields a news or book segment needs
MinSubjectFields == 2    \* fields a subject line needs
MinLinkLength == 5       \* an embedded news link shorter than this is replaced
FieldsRead == 3          \* parts[0], parts[1], parts[2] are read without `?.`
SubjectFieldsRead == 2   \* parts[0], parts[1] are read without `?.`
NewsCap == 4
SubjectCap == 8

----------------------------------------------------------------------------
(* Inputs: the rejections and the values of the wrapped operation           *)

Statuses == {None, Some(429), Some(500)}
Codes == {None, Some(429), Some(500)}
Messages ==
    { None,
      Some(<<>>),
      Some(<<"HTTP", " ", "4", "2", "9">>),
      Some(<<"4", "2", " ", "9">>),
      Some(<<"quota", " ", "RESOURCE_EXHAUSTED">>),
      Some(<<"Internal", " ", "error">>) }

Errors == [status : Statuses, code : Codes, message : Messages]

Values == {"v1", "v2"}

Policies == [maxRetries : 0..MaxRetries,
             initialDelay : {1000 * u : u \in 1..MaxDelayUnits}]

Editions == {"demo", "plain"}
ApiKeys == {None, Some(""), Some("undefined"), Some("abcd"), Some("AIza-key")}
\* the plain edition hands the key to the client unread: two keys stand for all
PlainKeys == {None, Some("AIza-key")}

\* A response is built from at most `max` segments, each of one of `shapes`
\* (Seg(shape, position) is the segment's text), of which at most MaxOdd are
\* not the regular shape.
Plans(shapes, regular, max) ==
    UNION { UNION { { [i \in 1..n |-> IF i \in odd THEN f[i] ELSE regular] :
                      f \in [odd -> shapes \ {regular}] }
                    : odd \in {o \in SUBSET (1..n) : Cardinality(o) <= MaxOdd} }
            : n \in 0..max }

SEP3 == <<"|", "|", "|">>
SEP2 == <<"$", "$">>
PIPE == <<"|">>
NEWLINE == <<"\n">>

NoChunks == <<>>
TextResponse(t) == [text |-> Some(t), chunks |-> NoChunks]
NoTextResponse == [text |-> None, chunks |-> NoChunks]

----------------------------------------------------------------------------
(* Module state of the service                                              *)

\* const isMockMode = !apiKey || apiKey === "undefined" || apiKey.length < 5
MockModeOf(key) ==
    \/ key = None
    \/ key[1] = ""
    \/ key[1] = "undefined"
    \/ Len(key[1]) < MinKeyLength

InitialMockPrograms ==
    << <<"Computer Science">>, <<"Software Engineering">>,
       <<"Business Administration">>, <<"Economics">>, <<"Accounting">>,
       <<"Mass Communication">>, <<"Law">>, <<"Medicine and Surgery">>,
       <<"International Relations">>, <<"Microbiology">> >>

\* the list the plain edition returns from the catch of generateDegreePrograms
PlainProgramsOnError ==
    << <<"Computer Science">>, <<"Economics">>, <<"Law">>, <<"Accounting">>,
       <<"Medicine">>, <<"Mass Communication">>, <<"Political Science">>,
       <<"Mechanical Engineering">> >>

\* a slip: String(response.text)
TextOfString(resp) == IF resp.text = None THEN <<"undefined">> ELSE resp.text[1]

\* response.text || ""
TextOf(resp) == IF resp.text = None THEN <<>> ELSE resp.text[1]

----------------------------------------------------------------------------
(* generateDegreePrograms                                                   *)

LongerThan(s, n) == StrLen(s) > n

\* text.split('|||').map(p => p.trim()).filter(p => p.length > 3)
ProgramsParsedDemo(text) ==
    Filter(Map(Split(text, SEP3), Trim), LAMBDA q : LongerThan(q, MinProgramLength))

\* ... .filter(p => p.length > 3 && !p.includes("List of"))
ProgramsParsedPlain(text) ==
    Filter(Map(Split(text, SEP3), Trim),
           LAMBDA q : LongerThan(q, MinProgramLength) /\ ~Includes(q, <<"List of">>))

\* text.split('\n').map(p => p.replace(/^\W+/, '').trim()).filter(p => p.length > 5)
ProgramsByLine(text) ==
    Filter(Map(Split(text, NEWLINE), LAMBDA q : Trim(StripLeadingNonWord(q))),
           LAMBDA q : LongerThan(q, MinLineLength))

\* a slip: the fallback is used below five entries
DegreeProgramsDemoBelowFive(resp, mock) ==
    LET text == TextOf(resp)
        programs == ProgramsParsedDemo(text)
    IN  IF text = <<>> THEN <<>>
        ELSE IF Len(programs) >= MinProgramCount THEN programs ELSE mock

\* a slip: the fallback tops up a short list
DegreeProgramsDemoMerged(resp, mock) ==
    LET text == TextOf(resp)
        programs == ProgramsParsedDemo(text)
    IN  IF text = <<>> THEN <<>>
        ELSE IF Len(programs) >= MinProgramCount THEN programs ELSE programs \o mock

\* demo edition, the try block
DegreeProgramsDemo(resp, mock) ==
    LET text == TextOf(resp)
        programs == ProgramsParsedDemo(text)
    IN  IF text = <<>> THEN <<>>
        ELSE IF Len(programs) > 0 THEN programs ELSE mock

\* plain edition, the try block
DegreeProgramsPlain(resp) ==
    LET text == TextOf(resp)
        programs == ProgramsParsedPlain(text)
    IN  IF text = <<>> THEN <<>>
        ELSE IF Len(programs) < MinProgramCount THEN ProgramsByLine(text)
        ELSE programs

ProgramShapes == {"name", "short", "padded", "title", "empty"}
ProgramSeg(shape, i) ==
    CASE shape = "name"   -> <<"Laws">>
      [] shape = "empty"  -> <<>>
      [] shape = "short"  -> <<"Law">>
      [] shape = "padded" -> <<" ", "Botany", ToString(i), " ">>
      [] shape = "title"  -> <<"List of", " ", "courses">>

ProgramTexts ==
    { Join([i \in 1..Len(p) |-> ProgramSeg(p[i], i)], sep) :
        p \in Plans(ProgramShapes, "name", MaxPrograms), sep \in {SEP3, NEWLINE} }

ProgramResponses == {NoTextResponse} \cup {TextResponse(t) : t \in ProgramTexts}

----------------------------------------------------------------------------
(* Helpers shared by the segment parsers                                    *)

\* a slip: a row passes with one field fewer than min
KeptRowsLoose(rows, sep, min) ==
    LET kept == SelectSeq([k \in 1..Len(rows) |-> k],
                          LAMBDA k : Len(Split(rows[k], sep)) >= min - 1)
    IN  [j \in 1..Len(kept) |->
            [parts |-> Split(rows[kept[j]], sep), index |-> kept[j] - 1]]

\* a slip: a row needs more than min fields
KeptRowsStrict(rows, sep, min) ==
    LET kept == SelectSeq([k \in 1..Len(rows) |-> k],
                          LAMBDA k : Len(Split(rows[k], sep)) > min)
    IN  [j \in 1..Len(kept) |->
            [parts |-> Split(rows[kept[j]], sep), index |-> kept[j] - 1]]

\* rows.forEach((row, index) => { const parts = row.split(sep);
\*                                if (parts.length >= min) out.push(...) })
\* yields one entry per kept row, in order: <<parts, index>>, index from 0.
\* a slip: the index of a row is its place among the rows kept
KeptRowsRenumbered(rows, sep, min) ==
    LET kept == SelectSeq([k \in 1..Len(rows) |-> k],
                          LAMBDA k : Len(Split(rows[k], sep)) >= min)
    IN  [j \in 1..Len(kept) |->
            [parts |-> Split(rows[kept[j]], sep), index |-> j - 1]]

KeptRows(rows, sep, min) ==
    LET kept == SelectSeq([k \in 1..Len(rows) |-> k],
                          LAMBDA k : Len(Split(rows[k], sep)) >= min)
    IN  [j \in 1..Len(kept) |->
            [parts |-> Split(rows[kept[j]], sep), index |-> kept[j] - 1]]

\* groundingChunks[index]?.web?.uri, as an optional string
ChunkUri(chunks, index) ==
    IF index + 1 <= Len(chunks) THEN chunks[index + 1] ELSE None

\* a || b for an optional string a
OrElse(a, b) == IF a = None \/ a[1] = <<>> THEN b ELSE a[1]

EncodeToken(t) ==
    CASE t = " "  -> "%20"
      [] t = "\n" -> "%0A"
      [] t = "\t" -> "%09"
      [] t = "|"  -> "%7C"
      [] t = "$"  -> "%24"
      [] t = "#"  -> "%23"
      [] OTHER    -> t

\* encodeURIComponent
encodeURIComponent(s) == [i \in 1..Len(s) |-> EncodeToken(s[i])]

SearchUrl(q) == <<"https://www.google.com/search?q=">> \o encodeURIComponent(q)

HASH == <<"#">>
UniversityName == <<"UNILAG">>

----------------------------------------------------------------------------
(* generateUniversityNews                                                   *)

\* parts[3]?.trim(), as an optional string
EmbeddedLink(parts) == IF Len(parts) >= 4 THEN Some(Trim(parts[4])) ELSE None

\* if (!link || link.length < 5) link = <substitute>
NewsLink(parts, substitute) ==
    LET link == EmbeddedLink(parts)
    IN  IF link = None \/ link[1] = <<>> \/ StrLen(link[1]) < MinLinkLength
        THEN substitute ELSE link[1]

NewsItemDemo(row, chunks) ==
    [headline |-> Trim(row.parts[1]),
     date     |-> Trim(row.parts[2]),
     snippet  |-> Trim(row.parts[3]),
     link     |-> NewsLink(row.parts, OrElse(ChunkUri(chunks, row.index), HASH))]

NewsItemPlain(row, chunks) ==
    [headline |-> StripLeadingNonWord(Trim(row.parts[1])),
     date     |-> Trim(row.parts[2]),
     snippet  |-> Trim(row.parts[3]),
     link     |-> NewsLink(row.parts,
                    OrElse(ChunkUri(chunks, row.index),
                           SearchUrl(UniversityName \o <<" ", "news">>)))]

\* the array newsItems once rawNews.forEach has run
NewsItemsDemo(resp) ==
    LET rows == KeptRows(Split(TextOf(resp), SEP3), SEP2, MinFields)
    IN  [j \in 1..Len(rows) |-> NewsItemDemo(rows[j], resp.chunks)]

NewsItemsPlain(resp) ==
    LET rows == KeptRows(Split(TextOf(resp), SEP3), SEP2, MinFields)
    IN  [j \in 1..Len(rows) |-> NewsItemPlain(rows[j], resp.chunks)]

\* a slip: the list is not cut to its cap
UniversityNewsDemoUncut(resp) == NewsItemsDemo(resp)

\* demo edition, the try block: newsItems.slice(0, 4)
UniversityNewsDemo(resp) == Slice0(NewsItemsDemo(resp), NewsCap)

\* plain edition, the try block
UniversityNewsPlain(resp) == Slice0(NewsItemsPlain(resp), NewsCap)

\* demo edition, the list returned in demo mode
MockNews ==
    << [headline |-> UniversityName \o <<" ", "Announces Resumption">>,
        snippet |-> <<"The university senate has approved the resumption date.">>,
        date |-> <<"2 days ago">>, link |-> HASH],
       [headline |-> <<"Admission List Released">>,
        snippet |-> <<"The merit admission list is now available on the portal.">>,
        date |-> <<"1 week ago">>, link |-> HASH],
       [headline |-> <<"Convocation Ceremony">>,
        snippet |-> <<"Upcoming convocation ceremony scheduled for next month.">>,
        date |-> <<"3 days ago">>, link |-> HASH],
       [headline |-> <<"Research Grant Won">>,
        snippet |-> <<"The Faculty of Science has secured a research grant.">>,
        date |-> <<"Yesterday">>, link |-> HASH] >>

NewsShapes == {"full", "nolink", "hash", "short", "blank", "empty"}
NewsSeg(shape, i) ==
    LET h == <<"Headline", ToString(i)>>
        three == <<" ">> \o h \o <<" ">> \o SEP2 \o <<"Today">> \o SEP2
                 \o <<"Snippet", ToString(i)>>
    IN  CASE shape = "full"   -> three \o SEP2 \o <<" ", "https://u.ng/", ToString(i)>>
          [] shape = "nolink" -> <<"-", " ">> \o three
          [] shape = "hash"   -> three \o SEP2 \o HASH
          [] shape = "short"  -> h \o SEP2 \o <<"Today">>
          [] shape = "blank"  -> <<" ">> \o SEP2 \o <<" ">> \o SEP2 \o <<" ">>
          [] shape = "empty"  -> <<>>

NewsTexts ==
    { Join([i \in 1..Len(p) |-> NewsSeg(p[i], i)], SEP3) :
        p \in Plans(NewsShapes, "full", MaxNews) }

Citations ==
    { NoChunks,
      << Some(<<"https://cite.ng/", "0">>), None, Some(<<"https://cite.ng/", "2">>) >> }

NewsResponses ==
    {NoTextResponse}
    \cup {[text |-> Some(t), chunks |-> c] : t \in NewsTexts, c \in Citations}

----------------------------------------------------------------------------
(* generateSemesterSubjects                                                 *)

DefaultDescription == <<"Core course module.">>

\* parts[2]?.trim() || "Core course module."
SubjectDescription(parts) ==
    OrElse(IF Len(parts) >= 3 THEN Some(Trim(parts[3])) ELSE None, DefaultDescription)

\* lines.forEach(line => { if (line.includes('|')) { ... } })
ParsedSubjects(text) ==
    LET lines == Filter(Split(text, NEWLINE), LAMBDA l : Includes(l, PIPE))
        rows == KeptRows(lines, PIPE, MinSubjectFields)
    IN  [j \in 1..Len(rows) |->
            [code        |-> Trim(rows[j].parts[1]),
             title       |-> Trim(rows[j].parts[2]),
             description |-> SubjectDescription(rows[j].parts)]]

getMockSubjects ==
    << [code |-> <<"GST 101">>, title |-> <<"Use of English">>,
        description |-> <<"Communication skills, essay writing, and comprehension.">>],
       [code |-> <<"MTH 101">>, title |-> <<"General Mathematics I">>,
        description |-> <<"Algebra, Trigonometry, and Coordinate Geometry.">>],
       [code |-> <<"CSC 101">>, title |-> <<"Intro to Computer Science">>,
        description |-> <<"History of computing, binary systems, and algorithms.">>],
       [code |-> <<"PHY 101">>, title |-> <<"General Physics I">>,
        description |-> <<"Mechanics, properties of matter, and thermal physics.">>],
       [code |-> <<"CHM 101">>, title |-> <<"General Chemistry I">>,
        description |-> <<"Atomic structure, chemical bonding, and stoichiometry.">>],
       [code |-> <<"GST 103">>, title |-> <<"Nigerian Peoples & Culture">>,
        description |-> <<"Study of Nigerian history, ethnic groups, and cultures.">>] >>

\* the list the plain edition returns from the catch of generateSemesterSubjects
PlainSubjectsOnError ==
    << [code |-> <<"GST 101">>, title |-> <<"Use of English">>,
        description |-> <<"Communication skills in English.">>],
       [code |-> <<"MTH 101">>, title |-> <<"General Mathematics">>,
        description |-> <<"Algebra and Trigonometry.">>],
       [code |-> <<"GST 103">>, title |-> <<"Nigerian Peoples & Culture">>,
        description |-> <<"Study of Nigerian history.">>],
       [code |-> <<"CSC 101">>, title |-> <<"Intro to Computer Science">>,
        description |-> <<"Basics of computing.">>] >>

\* demo edition, the try block
SemesterSubjectsDemo(resp) ==
    LET subjects == ParsedSubjects(TextOf(resp))
    IN  IF Len(subjects) > 0 THEN Slice0(subjects, SubjectCap) ELSE getMockSubjects

\* a slip: the list is not cut to its cap
SemesterSubjectsPlainUncut(resp) == ParsedSubjects(TextOf(resp))

\* plain edition, the try block
SemesterSubjectsPlain(resp) == Slice0(ParsedSubjects(TextOf(resp)), SubjectCap)

SubjectShapes == {"full", "nodesc", "prose", "blankdesc", "empty", "pipe"}
SubjectSeg(shape, i) ==
    LET two == <<"CSC", ToString(i), " ">> \o PIPE \o <<" ", "Title", ToString(i)>>
    IN  CASE shape = "full"      -> two \o PIPE \o <<" ", "About", ToString(i)>>
          [] shape = "nodesc"    -> two
          [] shape = "prose"     -> <<"Here are the core courses">>
          [] shape = "blankdesc" -> two \o PIPE \o <<" ">>
          [] shape = "empty"     -> <<>>
          [] shape = "pipe"      -> PIPE

SubjectTexts ==
    { Join([i \in 1..Len(p) |-> SubjectSeg(p[i], i)], NEWLINE) :
        p \in Plans(SubjectShapes, "full", MaxLines) }

SubjectResponses == {NoTextResponse} \cup {TextResponse(t) : t \in SubjectTexts}

----------------------------------------------------------------------------
(* findBooks                                                                *)

BookDemo(row, chunks) ==
    [title       |-> Trim(row.parts[1]),
     author      |-> Trim(row.parts[2]),
     description |-> Trim(row.parts[3]),
     link        |-> HASH]

BookPlain(row, chunks) ==
    [title       |-> StripLeadingNonWord(Trim(row.parts[1])),
     author      |-> Trim(row.parts[2]),
     description |-> Trim(row.parts[3]),
     link        |-> OrElse(ChunkUri(chunks, row.index),
                            SearchUrl(Trim(row.parts[1]) \o <<" ", "book">>))]

\* demo edition, the try block
FindBooksDemo(resp) ==
    LET rows == KeptRows(Split(TextOf(resp), SEP3), SEP2, MinFields)
    IN  [j \in 1..Len(rows) |-> BookDemo(rows[j], resp.chunks)]

\* plain edition, the try block
FindBooksPlain(resp) ==
    LET rows == KeptRows(Split(TextOf(resp), SEP3), SEP2, MinFields)
    IN  [j \in 1..Len(rows) |-> BookPlain(rows[j], resp.chunks)]

BookShapes == {"full", "bullet", "short", "blank", "empty"}
BookSeg(shape, i) ==
    LET three == <<" ", "Title", ToString(i), " ">> \o SEP2 \o <<"Author", ToString(i)>>
                 \o SEP2 \o <<"Summary", ToString(i)>>
    IN  CASE shape = "full"   -> three
          [] shape = "bullet" -> <<"*">> \o three \o SEP2 \o <<"https://b.ng/", ToString(i)>>
          [] shape = "short"  -> <<"Title", ToString(i)>> \o SEP2 \o <<"Author", ToString(i)>>
          [] shape = "blank"  -> <<" ">> \o SEP2 \o SEP2
          [] shape = "empty"  -> <<>>

BookTexts ==
    { Join([i \in 1..Len(p) |-> BookSeg(p[i], i)], SEP3) :
        p \in Plans(BookShapes, "full", MaxNews) }

BookResponses ==
    {NoTextResponse}
    \cup {[text |-> Some(t), chunks |-> c] : t \in BookTexts, c \in Citations}

----------------------------------------------------------------------------
(* recommendBooks: the response text is JSON; json is what JSON.parse makes  *)
(* of it: "invalid" (it throws), "null", or an object with or without books  *)

\* the list returned in demo mode (also by findBooks)
MockBooks ==
    << [title |-> <<"Fundamentals of Modern Study">>, author |-> <<"Dr. A. B. Johnson">>,
        description |-> <<"A comprehensive guide to academic excellence.">>, link |-> HASH],
       [title |-> <<"Principles of Economics">>, author |-> <<"N. Gregory Mankiw">>,
        description |-> <<"Standard text on micro and macroeconomics.">>, link |-> HASH],
       [title |-> <<"Introduction to Algorithms">>, author |-> <<"T. Cormen">>,
        description |-> <<"Algorithms and data structures.">>, link |-> HASH],
       [title |-> <<"Nigerian Legal System">>, author |-> <<"Ese Malemi">>,
        description |-> <<"Foundational text for law students.">>, link |-> HASH] >>

JsonBook(i) ==
    [title |-> <<"Text", ToString(i)>>, author |-> <<"Author", ToString(i)>>,
     description |-> <<"Summary", ToString(i)>>]

JsonValues ==
    { [kind |-> "invalid", books |-> None],
      [kind |-> "null", books |-> None],
      [kind |-> "object", books |-> None] }
    \cup { [kind |-> "object", books |-> Some([i \in 1..n |-> JsonBook(i)])] :
             n \in 0..MaxBooks }

RecommendResponses ==
    {[text |-> None, chunks |-> NoChunks, json |-> [kind |-> "invalid", books |-> None]]}
    \cup {[text |-> Some(<<"json">>), chunks |-> NoChunks, json |-> j] : j \in JsonValues}

\* the try block; it throws where JSON.parse or data.books does
RecommendBooksThrows(resp) ==
    TextOf(resp) # <<>> /\ resp.json.kind \in {"invalid", "null"}

RecommendBooksTry(resp) ==
    IF TextOf(resp) = <<>> THEN <<>>
    ELSE IF resp.json.books = None THEN <<>> ELSE resp.json.books[1]

----------------------------------------------------------------------------
(* generateChapterContent: its fn has no try/catch                          *)

ChapterResponses == {NoTextResponse, TextResponse(<<"Lecture notes">>)}

\* response.text || "Failed to generate content."
ChapterContent(resp) == OrElse(resp.text, <<"Failed to generate content.">>)

getMockChapterContent == <<"(Demo Mode) simulated chapter content">>

----------------------------------------------------------------------------
(* The other accessors: generateImage, generateCourseOutline,               *)
(* generateBatchQuiz (generateQuiz calls it), generateBookSummary and       *)
(* processDocument; the chat factories                                      *)

\* generateImage: the response may carry an inline image part
ImageResponses ==
    { [text |-> None, chunks |-> NoChunks, image |-> i] :
        i \in {None, Some(<<"data:image/png;base64,", "AAAA">>)} }

\* the first part with inlineData, or null
ImageOf(resp) == resp.image

\* responses whose text is JSON (course outline, quiz)
JsonResponses ==
    { [text |-> None, chunks |-> NoChunks, json |-> [kind |-> "invalid", books |-> None]],
      [text |-> Some(<<"json">>), chunks |-> NoChunks,
       json |-> [kind |-> "invalid", books |-> None]],
      [text |-> Some(<<"json">>), chunks |-> NoChunks,
       json |-> [kind |-> "object", books |-> None]] }

\* JSON.parse(response.text)
JsonOf(resp) == resp.json

TextResponses == {NoTextResponse, TextResponse(<<"Generated text">>)}

\* response.text || <the text the accessor puts in its place>
SummaryText(ed, resp) ==
    OrElse(resp.text, IF ed = "demo" THEN <<"Could not generate summary.">>
                      ELSE <<"Could not generate content.">>)

DocumentText(ed, resp) ==
    OrElse(resp.text, IF ed = "demo" THEN <<"Failed to process.">>
                      ELSE <<"Failed to process document.">>)

DocumentError == <<"Error processing document.">>

getMockCourseOutline == <<"A comprehensive simulation course">>
getMockQuiz == <<"Practice Quiz">>
MockSummary == <<"(Demo Mode) This is a placeholder summary">>
MockDocument == <<"(Demo Mode) Document processed successfully.">>
PlaceholderImage == <<"https://placehold.co/600x400/6366f1/ffffff?text=">>
mockChatResponse == <<"I am operating in Demo Mode.">>

ChatFactories == {"createTutorChat", "createDetailedTutorChat", "createGeneralChat"}

\* createMockChat(); ai.chats.create(...)
createMockChat == [chat |-> "mock"]
RealChat(factory) == [chat |-> factory]

----------------------------------------------------------------------------
(* The function fn each accessor hands to retryWithBackoff                  *)

Accessors ==
    {"programs", "news", "subjects", "recommendBooks", "findBooks", "chapterContent",
     "image", "courseOutline", "quiz", "batchQuiz", "bookSummary", "processDocument"}

\* generateQuiz(topic) is generateBatchQuiz(topic, "University", 5)
Callee(kind) == IF kind = "quiz" THEN "batchQuiz" ELSE kind

\* a slip: recommendBooks without its try/catch
CatchesButRecommend(kind) ==
    kind \in {"programs", "news", "subjects", "findBooks", "image", "processDocument"}

\* the accessors whose fn wraps the network call in try/catch
Catches(kind) ==
    kind \in {"programs", "news", "subjects", "recommendBooks", "findBooks",
              "image", "processDocument"}

Responses(kind) ==
    CASE kind = "operation"      -> Values
      [] kind = "programs"       -> ProgramResponses
      [] kind = "news"           -> NewsResponses
      [] kind = "subjects"       -> SubjectResponses
      [] kind = "recommendBooks" -> RecommendResponses
      [] kind = "findBooks"      -> BookResponses
      [] kind = "chapterContent" -> ChapterResponses
      [] kind = "image"          -> ImageResponses
      [] kind \in {"courseOutline", "batchQuiz"} -> JsonResponses
      [] kind \in {"bookSummary", "processDocument"} -> TextResponses
      [] OTHER                   -> {}

\* the array the parser of the accessor has filled when the try block ends, if
\* the accessor has one and the try block reaches it
Extracted(ed, kind, resp) ==
    LET text == TextOf(resp)
    IN  CASE kind = "programs" ->
                IF text = <<>> THEN None
                ELSE IF ed = "demo" THEN Some(ProgramsParsedDemo(text))
                ELSE IF Len(ProgramsParsedPlain(text)) < MinProgramCount
                THEN Some(ProgramsByLine(text))
                ELSE Some(ProgramsParsedPlain(text))
          [] kind = "news" ->
                Some(IF ed = "demo" THEN NewsItemsDemo(resp) ELSE NewsItemsPlain(resp))
          [] kind = "subjects" -> Some(ParsedSubjects(text))
          [] kind = "findBooks" ->
                Some(IF ed = "demo" THEN FindBooksDemo(resp) ELSE FindBooksPlain(resp))
          [] OTHER -> None

\* what the code after the network call evaluates to, when it does not throw
TryBlock(ed, kind, resp, mock) ==
    CASE kind = "programs" ->
            IF ed = "demo" THEN DegreeProgramsDemo(resp, mock)
            ELSE DegreeProgramsPlain(resp)
      [] kind = "news" ->
            IF ed = "demo" THEN UniversityNewsDemo(resp) ELSE UniversityNewsPlain(resp)
      [] kind = "subjects" ->
            IF ed = "demo" THEN SemesterSubjectsDemo(resp)
            ELSE SemesterSubjectsPlain(resp)
      [] kind = "recommendBooks" -> RecommendBooksTry(resp)
      [] kind = "findBooks" ->
            IF ed = "demo" THEN FindBooksDemo(resp) ELSE FindBooksPlain(resp)
      [] kind = "chapterContent" -> ChapterContent(resp)
      [] kind = "image" -> ImageOf(resp)
      [] kind \in {"courseOutline", "batchQuiz"} -> JsonOf(resp)
      [] kind = "bookSummary" -> SummaryText(ed, resp)
      [] kind = "processDocument" -> DocumentText(ed, resp)
      [] kind = "operation" -> resp

\* if (!response.text) throw new Error(...); JSON.parse(response.text) throws
JsonThrows(resp) == TextOf(resp) = <<>> \/ resp.json.kind = "invalid"

\* parts[i].trim() throws a TypeError where a row that passed the test on
\* parts.length has no field i
ParserThrows(kind, resp) ==
    LET text == TextOf(resp)
        short(rows, n) == \E j \in 1..Len(rows) : Len(rows[j].parts) < n
    IN  CASE kind \in {"news", "findBooks"} ->
                short(KeptRows(Split(text, SEP3), SEP2, MinFields), FieldsRead)
          [] kind = "subjects" ->
                short(KeptRows(Filter(Split(text, NEWLINE), LAMBDA l : Includes(l, PIPE)),
                               PIPE, MinSubjectFields), SubjectFieldsRead)
          [] OTHER -> FALSE

TryThrows(kind, resp) ==
    \/ ParserThrows(kind, resp)
    \/ kind = "recommendBooks" /\ RecommendBooksThrows(resp)
    \/ kind \in {"courseOutline", "batchQuiz"} /\ JsonThrows(resp)

\* what the catch block of fn returns
CatchBlock(ed, kind, mock) ==
    CASE kind = "programs" -> IF ed = "demo" THEN mock ELSE PlainProgramsOnError
      [] kind = "subjects" -> IF ed = "demo" THEN getMockSubjects ELSE PlainSubjectsOnError
      [] kind = "image" -> None
      [] kind = "processDocument" -> DocumentError
      [] OTHER -> <<>>

\* what the accessor returns in demo mode
MockData(kind, mock) ==
    CASE kind = "programs" -> mock
      [] kind = "news" -> MockNews
      [] kind = "subjects" -> getMockSubjects
      [] kind = "recommendBooks" -> MockBooks
      [] kind = "findBooks" -> MockBooks
      [] kind = "chapterContent" -> getMockChapterContent
      [] kind = "image" -> PlaceholderImage
      [] kind = "courseOutline" -> getMockCourseOutline
      [] kind = "batchQuiz" -> getMockQuiz
      [] kind = "bookSummary" -> MockSummary
      [] kind = "processDocument" -> MockDocument
      [] kind = "sendMessage" -> mockChatResponse

Fulfilled(v) == [ok |-> TRUE, value |-> v]
Rejected(e) == [ok |-> FALSE, error |-> e]

SyntaxError == [status |-> None, code |-> None, message |-> Some(<<"Unexpected token">>)]
\* new Error(message)
NewError(m) == [status |-> None, code |-> None, message |-> Some(m)]

\* the error the try block throws
TryError(kind, resp) ==
    IF kind = "courseOutline" /\ TextOf(resp) = <<>>
    THEN NewError(<<"No response">>)
    ELSE IF kind = "batchQuiz" /\ TextOf(resp) = <<>>
    THEN NewError(<<"Failed to generate quiz">>)
    ELSE SyntaxError

\* the promise fn() settles with, once the network call has resolved with resp
FnOnResponse(ed, kind, resp, mock) ==
    IF TryThrows(kind, resp)
    THEN IF Catches(kind) THEN Fulfilled(CatchBlock(ed, kind, mock))
         ELSE Rejected(TryError(kind, resp))
    ELSE Fulfilled(TryBlock(ed, kind, resp, mock))

\* the promise fn() settles with, once the network call has rejected with e
FnOnError(ed, kind, e, mock) ==
    IF Catches(kind) THEN Fulfilled(CatchBlock(ed, kind, mock)) ELSE Rejected(e)

----------------------------------------------------------------------------
(* retryWithBackoff                                                         *)

\* error?.message && error.message.includes(needle)
MessageIncludes(error, needle) ==
    /\ error.message # None
    /\ error.message[1] # <<>>
    /\ Includes(error.message[1], needle)

\* a slip: the message is not looked at
isRateLimitByNumber(error) == error.status = Some(429) \/ error.code = Some(429)

isRateLimit(error) ==
    \/ error.status = Some(429)
    \/ error.code = Some(429)
    \/ MessageIncludes(error, <<"4", "2", "9">>)
    \/ MessageIncludes(error, <<"RESOURCE_EXHAUSTED">>)

\* slips: the budget is tested with >=; every failure is retried
ShouldRetryOnceMore(r, error) == r >= 0 /\ isRateLimit(error)
ShouldRetryAnyError(r, error) == r > 0

\* the guard of the retry branch
ShouldRetry(r, error) == r > 0 /\ isRateLimit(error)

\* slips: the budget is not decremented; the delay grows by a fixed step
NextRetriesSame(r) == r
NextDelayLinear(d) == d + DefaultDelay

\* the arguments of the recursive call
NextRetries(r) == r - 1
NextDelay(d) == d * Multiplier

\* retryWithBackoff(fn, r, d) is entered: fn is invoked at once.
Enter(kind, r, d) ==
    /\ pc' = "inflight"
    /\ op' = kind
    /\ policy' = Some([maxRetries |-> r, initialDelay |-> d])
    /\ retries' = r
    /\ delay' = d
    /\ attempts' = 1
    /\ UNCHANGED <<waits, lastError, outcome, result, thrown>>

\* `return await fn()` and the catch block, once fn() has settled with o
Await(o) ==
    IF o.ok
    THEN /\ pc' = "done"
         /\ outcome' = "returned"
         /\ result' = Some(o.value)
         /\ UNCHANGED <<waits, lastError, thrown>>
    ELSE /\ lastError' = Some(o.error)
         /\ UNCHANGED result
         /\ IF ShouldRetry(retries, o.error)
            THEN /\ pc' = "waiting"
                 /\ waits' = Append(waits, delay)
                 /\ UNCHANGED <<outcome, thrown>>
            ELSE /\ pc' = "done"
                 /\ outcome' = "thrown"
                 /\ thrown' = Some(o.error)
                 /\ UNCHANGED waits

----------------------------------------------------------------------------
(* Actions                                                                  *)

\* a direct call retryWithBackoff(fn, p.maxRetries, p.initialDelay)
InvokeOperation(p) ==
    /\ pc = "idle"
    /\ Enter("operation", p.maxRetries, p.initialDelay)
    /\ UNCHANGED <<uiVars, calls, moduleVars, response, netError, parsed, requested>>

\* an exported accessor is called: `if (isMockMode || !ai) return mockDelay(...)`,
\* else retryWithBackoff(fn), whose fn calls ai.models.generateContent at once
CallAccessor(kind) ==
    /\ pc = "idle"
    /\ IF isMockMode
       THEN /\ pc' = "mockDelay"
            /\ op' = Callee(kind)
            /\ UNCHANGED <<policy, retries, delay, attempts, waits, lastError,
                           outcome, result, thrown, requested>>
       ELSE /\ Enter(Callee(kind), DefaultRetries, DefaultDelay)
            /\ requested' = TRUE
    /\ UNCHANGED <<uiVars, calls, moduleVars, response, netError, parsed>>

\* a chat factory is called; it returns a chat and sends nothing
CreateChat(factory) ==
    /\ pc = "idle"
    /\ pc' = "done"
    /\ op' = factory
    /\ outcome' = "returned"
    /\ result' = Some(IF isMockMode THEN createMockChat ELSE RealChat(factory))
    /\ UNCHANGED <<policy, retries, delay, attempts, waits, lastError, thrown>>
    /\ UNCHANGED <<uiVars, calls, moduleVars, response, netError, parsed, requested>>

\* chat.sendMessage(msg) on the chat a factory returned: the mock chat awaits
\* mockDelay(null, 1000) and returns mockChatResponse; the chat of the client
\* library sends the message to the service
SendMessage ==
    /\ pc = "done"
    /\ op \in ChatFactories
    /\ op' = "sendMessage"
    /\ result' = None
    /\ outcome' = "none"
    /\ IF result = Some(createMockChat)
       THEN pc' = "mockDelay" /\ UNCHANGED requested
       ELSE pc' = "sending" /\ requested' = TRUE
    /\ UNCHANGED <<policy, retries, delay, attempts, waits, lastError, thrown>>
    /\ UNCHANGED <<uiVars, calls, moduleVars, response, netError, parsed>>

\* the client library settles sendMessage with a reply or with an error
MessageSettles(o) ==
    /\ pc = "sending"
    /\ pc' = "done"
    /\ IF o.ok
       THEN /\ outcome' = "returned" /\ result' = Some(o.value)
            /\ response' = Some(o.value) /\ UNCHANGED <<thrown, netError>>
       ELSE /\ outcome' = "thrown" /\ thrown' = Some(o.error)
            /\ netError' = Some(o.error) /\ UNCHANGED <<result, response>>
    /\ UNCHANGED <<op, policy, retries, delay, attempts, waits, lastError>>
    /\ UNCHANGED <<uiVars, calls, moduleVars, parsed, requested>>

\* the timer of mockDelay fires
MockDelayElapsed ==
    /\ pc = "mockDelay"
    /\ pc' = "done"
    /\ outcome' = "returned"
    /\ result' = Some(MockData(op, mockPrograms))
    /\ UNCHANGED <<op, policy, retries, delay, attempts, waits, lastError, thrown>>
    /\ UNCHANGED <<uiVars, calls, moduleVars, response, netError, parsed, requested>>

\* the pending call of the wrapped operation resolves
NetworkResolves(r) ==
    /\ pc = "inflight"
    /\ r \in Responses(op)
    /\ response' = Some(r)
    /\ parsed' = IF TryThrows(op, r) THEN None ELSE Extracted(edition, op, r)
    /\ Await(FnOnResponse(edition, op, r, mockPrograms))
    /\ UNCHANGED <<op, policy, retries, delay, attempts>>
    /\ UNCHANGED <<uiVars, calls, moduleVars, netError, requested>>

\* the pending call of the wrapped operation rejects
NetworkRejects(e) ==
    /\ pc = "inflight"
    /\ netError' = Some(e)
    /\ Await(FnOnError(edition, op, e, mockPrograms))
    /\ UNCHANGED <<op, policy, retries, delay, attempts>>
    /\ UNCHANGED <<uiVars, calls, moduleVars, response, parsed, requested>>

\* the backoff timer fires: `return retryWithBackoff(fn, retries - 1, delay * 2)`,
\* which invokes fn again at once
BackoffElapsed ==
    /\ pc = "waiting"
    /\ pc' = "inflight"
    /\ retries' = NextRetries(retries)
    /\ delay' = NextDelay(delay)
    /\ attempts' = attempts + 1
    /\ requested' = (requested \/ op \in Accessors)
    /\ UNCHANGED <<op, policy, waits, lastError, outcome, result, thrown>>
    /\ UNCHANGED <<uiVars, calls, moduleVars, response, netError, parsed>>

\* the caller takes the result; the next call starts afresh
Settle ==
    /\ pc = "done"
    /\ pc' = "idle"
    /\ op' = "none"
    /\ policy' = None
    /\ retries' = 0
    /\ delay' = 0
    /\ attempts' = 0
    /\ waits' = <<>>
    /\ lastError' = None
    /\ outcome' = "none"
    /\ result' = None
    /\ thrown' = None
    /\ response' = None
    /\ netError' = None
    /\ parsed' = None
    /\ UNCHANGED <<uiVars, calls, moduleVars, requested>>

Calls == 1..MaxCalls

\* a call that has not been made: no fn pending, no timer set
IdleCall ==
    [pc |-> "idle", retries |-> 0, delay |-> 0, inflight |-> 0, timers |-> 0,
     events |-> <<>>, outcome |-> "none"]

\* no QuizView is mounted; the fields hold what useState and useRef start with
QuizViewUnmounted ==
    [mounted |-> FALSE, customConfig |-> None, quiz |-> None,
     currentQuestionIndex |-> 0, userAnswers |-> <<>>,
     isAnsweredImmediate |-> FALSE, immediateScore |-> 0, isLoading |-> TRUE,
     isSubmitted |-> FALSE, isReviewMode |-> FALSE, timeLeft |-> None,
     endTimeRef |-> None, timerIntervalRef |-> None,
     fetching |-> 0, now |-> 0, onComplete |-> <<>>]

Emails == {<<"ada@x.ng">>, <<"bo@x.ng">>}

LastUserKey == <<"gemini_academy_last_user">>
UserKey(email) == <<"gemini_academy_user_">> \o email
StorageKeys == {LastUserKey} \cup {UserKey(email) : email \in Emails}

\* App as first rendered: the useState values, nothing pending
AppInitial ==
    [view |-> "LANDING", userProfile |-> None, courseData |-> None,
     isLoading |-> FALSE, quizConfig |-> None,
     stats |-> [quizzesTaken |-> 0, averageScore |-> 0],
     pending |-> 0, logoutTimers |-> 0, quizSubmitted |-> FALSE,
     completions |-> 0, session |-> "none"]

\* Dashboard as first rendered with nothing saved: the useState values, no
\* request in flight, no message sent yet
DashboardInitial ==
    [chatSessions |-> <<>>, currentSessionId |-> None, chatMessages |-> <<>>,
     inFlight |-> {}, sent |-> 0,
     favoriteBooks |-> <<>>, undoToast |-> None]

\* the module is loaded: isMockMode is computed once
Init ==
    /\ edition \in Editions
    /\ apiKey \in ApiKeys
    /\ edition = "plain" => apiKey \in PlainKeys
    /\ isMockMode = (edition = "demo" /\ MockModeOf(apiKey))
    /\ mockPrograms = InitialMockPrograms
    /\ pc = "idle"
    /\ op = "none"
    /\ policy = None
    /\ retries = 0
    /\ delay = 0
    /\ attempts = 0
    /\ waits = <<>>
    /\ lastError = None
    /\ outcome = "none"
    /\ result = None
    /\ thrown = None
    /\ response = None
    /\ netError = None
    /\ parsed = None
    /\ requested = FALSE
    /\ calls = [c \in Calls |-> IdleCall]
    /\ quizView = QuizViewUnmounted
    /\ app = AppInitial
    /\ localStorage = [key \in StorageKeys |-> None]
    /\ registered = [email \in Emails |-> None]
    /\ dashboard = DashboardInitial

ChatReplies == {Fulfilled(<<"A reply">>), Rejected(NewError(<<"Internal", " ", "error">>))}

Next ==
    \/ \E p \in Policies : InvokeOperation(p)
    \/ \E kind \in Accessors : CallAccessor(kind)
    \/ \E factory \in ChatFactories : CreateChat(factory)
    \/ SendMessage
    \/ \E o \in ChatReplies : MessageSettles(o)
    \/ MockDelayElapsed
    \/ \E r \in Responses(op) : NetworkResolves(r)
    \/ \E e \in Errors : NetworkRejects(e)
    \/ BackoffElapsed
    \/ Settle

Spec == Init /\ [][Next]_vars

----------------------------------------------------------------------------
(* Several retryWithBackoff calls side by side.  Each call is its own chain *)
(* of async frames; the event loop runs one continuation at a time, in any  *)
(* order across the calls.  inflight counts the promises of fn that have    *)
(* not settled, timers the backoff timers that have not fired, events the   *)
(* history of the call.                                                     *)

\* the policies tried side by side (the delay plays no part in the order)
ConcPolicies == {p \in Policies : p.initialDelay = 1000}

\* one rate-limit failure and one other failure stand for all
ConcErrors ==
    { [status |-> Some(429), code |-> None, message |-> None],
      [status |-> Some(500), code |-> None, message |-> None] }

\* a slip: the retry is started without awaiting the timer
BackoffNotAwaited == FALSE

\* `await new Promise(resolve => setTimeout(resolve, delay))`: the catch block
\* goes on only when the timer has fired
BackoffAwaited == TRUE

\* fn() is called: `return await fn()`
InvokeFn(call) ==
    [call EXCEPT !.pc = "awaitFn", !.inflight = @ + 1,
                 !.events = Append(@, "start")]

\* retryWithBackoff(fn, p.maxRetries, p.initialDelay) is called
StartCall(c, p) ==
    /\ calls[c].pc = "idle"
    /\ calls' = [calls EXCEPT ![c] =
                    InvokeFn([@ EXCEPT !.retries = p.maxRetries,
                                       !.delay = p.initialDelay])]
    /\ UNCHANGED <<serviceVars, uiVars>>

\* the promise of fn fulfils: the call returns
FnFulfils(c) ==
    /\ calls[c].pc = "awaitFn"
    /\ calls[c].inflight > 0
    /\ calls' = [calls EXCEPT ![c].inflight = @ - 1, ![c].pc = "done",
                              ![c].outcome = "returned",
                              ![c].events = Append(@, "success")]
    /\ UNCHANGED <<serviceVars, uiVars>>

\* the promise of fn rejects with e: the catch block runs up to its await, or
\* throws
FnRejects(c, e) ==
    /\ calls[c].pc = "awaitFn"
    /\ calls[c].inflight > 0
    /\ LET failed == [calls[c] EXCEPT !.inflight = @ - 1,
                                      !.events = Append(@, "fail")]
           timed == [failed EXCEPT !.timers = @ + 1, !.pc = "awaitTimer",
                                   !.events = Append(@, "wait")]
       IN  calls' = [calls EXCEPT ![c] =
              IF ShouldRetry(calls[c].retries, e)
              THEN IF BackoffAwaited THEN timed
                   ELSE InvokeFn([timed EXCEPT !.retries = NextRetries(@),
                                               !.delay = NextDelay(@)])
              ELSE [failed EXCEPT !.pc = "done", !.outcome = "thrown"]]
    /\ UNCHANGED <<serviceVars, uiVars>>

\* the backoff timer of the call fires: the catch block goes on with
\* `return retryWithBackoff(fn, retries - 1, delay * 2)`, which calls fn
TimerFires(c) ==
    /\ calls[c].timers > 0
    /\ LET fired == [calls[c] EXCEPT !.timers = @ - 1,
                                     !.events = Append(@, "elapsed")]
       IN  calls' = [calls EXCEPT ![c] =
              IF calls[c].pc = "awaitTimer"
              THEN InvokeFn([fired EXCEPT !.retries = NextRetries(@),
                                          !.delay = NextDelay(@)])
              ELSE fired]
    /\ UNCHANGED <<serviceVars, uiVars>>

\* the caller takes the outcome; the slot is free for another call
CallEnds(c) ==
    /\ calls[c].pc = "done"
    /\ calls[c].timers = 0
    /\ calls' = [calls EXCEPT ![c] = IdleCall]
    /\ UNCHANGED <<serviceVars, uiVars>>

InitConc == Init /\ edition = "plain" /\ apiKey = Some("AIza-key")

NextConc ==
    \/ \E c \in Calls, p \in ConcPolicies : StartCall(c, p)
    \/ \E c \in Calls : FnFulfils(c)
    \/ \E c \in Calls, e \in ConcErrors : FnRejects(c, e)
    \/ \E c \in Calls : TimerFires(c)
    \/ \E c \in Calls : CallEnds(c)

SpecConc == InitConc /\ [][NextConc]_vars

----------------------------------------------------------------------------
(* QuizView.  quizView holds the useState values under their names, the two *)
(* refs, the prop customConfig, the pending fetchQuiz calls, the time since *)
(* the mount and the scores handed to the prop onComplete.  A quiz is the   *)
(* sequence of the correctAnswerIndex of its questions.                     *)

\* the quizzes the service comes back with: of every length, the right
\* options going round; the answers clicked vary over every option
Quizzes == {[i \in 1..n |-> (i - 1) % MaxOptions] : n \in 1..MaxQuestions}

TestDuration == 1        \* durationSeconds of the timed tests followed

\* the prop customConfig: absent, or with a count and an optional duration
CustomConfigs ==
    {None} \cup
    { Some([count |-> c, durationSeconds |-> d]) :
        c \in {1, MaxQuestions}, d \in {None, Some(TestDuration)} }

\* const isTestMode = !!customConfig?.durationSeconds
isTestMode(v) == v.customConfig # None /\ v.customConfig[1].durationSeconds # None

\* userAnswers[idx], idx counted from 0; undefined beyond the array
AnswerAt(userAnswers, idx) ==
    IF idx + 1 \in DOMAIN userAnswers THEN userAnswers[idx + 1] ELSE None

\* a slip: every answered question counts
finalScoreAnswered(questions, userAnswers) ==
    Cardinality({idx \in 0..(Len(questions) - 1) : AnswerAt(userAnswers, idx) # None})

\* the forEach of handleFinishTest
finalScore(questions, userAnswers) ==
    Cardinality({idx \in 0..(Len(questions) - 1) :
                    AnswerAt(userAnswers, idx) = Some(questions[idx + 1])})

\* what a function created in a render sees of the state
Closure(v) == [quiz |-> v.quiz, isSubmitted |-> v.isSubmitted,
               userAnswers |-> v.userAnswers]

\* handleFinishTest as created in the render that saw c
handleFinishTest(v, c) ==
    IF c.quiz = None \/ c.isSubmitted THEN v
    ELSE [v EXCEPT !.isSubmitted = TRUE, !.isReviewMode = TRUE,
                   !.timerIntervalRef = None,
                   !.onComplete = Append(@, finalScore(c.quiz[1], c.userAnswers))]

\* the timer effect: its cleanup, then its body
TimerEffect(v) ==
    [v EXCEPT !.timerIntervalRef =
        IF isTestMode(v) /\ ~v.isSubmitted /\ v.endTimeRef # None
        THEN Some(Closure(v)) ELSE None]

\* the render after a handler: the timer effect runs when isSubmitted changed
\* (isTestMode is fixed while the component is mounted)
Rendered(old, new) ==
    IF new.isSubmitted # old.isSubmitted THEN TimerEffect(new) ELSE new

\* the condition under which the option buttons are disabled and
\* handleOptionClick returns at once
OptionsLocked(v) == v.isSubmitted \/ (~isTestMode(v) /\ v.isAnsweredImmediate)

handleOptionClick(v, optionIndex) ==
    IF OptionsLocked(v) THEN v
    ELSE LET newAnswers == [v.userAnswers EXCEPT ![v.currentQuestionIndex + 1] =
                                Some(optionIndex)]
         IN  IF isTestMode(v) THEN [v EXCEPT !.userAnswers = newAnswers]
             ELSE [v EXCEPT !.userAnswers = newAnswers,
                            !.isAnsweredImmediate = TRUE,
                            !.immediateScore =
                                IF v.quiz # None
                                   /\ optionIndex = v.quiz[1][v.currentQuestionIndex + 1]
                                THEN @ + 1 ELSE @]

handleNext(v) ==
    IF v.quiz = None THEN v
    ELSE IF v.currentQuestionIndex < Len(v.quiz[1]) - 1
         THEN [v EXCEPT !.currentQuestionIndex = @ + 1,
                        !.isAnsweredImmediate = IF isTestMode(v) THEN @ ELSE FALSE]
         ELSE IF isTestMode(v) THEN v ELSE handleFinishTest(v, Closure(v))

\* the question screen is on display (past the three early returns of the
\* render), with a question to show
QuestionScreen(v) ==
    /\ v.mounted /\ ~v.isLoading /\ v.quiz # None
    /\ ~(v.isSubmitted /\ ~v.isReviewMode)
    /\ v.currentQuestionIndex < Len(v.quiz[1])

\* the result screen is on display
ResultScreen(v) ==
    v.mounted /\ ~v.isLoading /\ v.quiz # None /\ v.isSubmitted /\ ~v.isReviewMode

QuizFrame == UNCHANGED <<serviceVars, calls, app, localStorage, registered, dashboard>>

\* the parent renders <QuizView customConfig={cfg}>: first render, then the
\* fetch effect (fetchQuiz is called) and the timer effect
MountQuizView(cfg) ==
    /\ ~quizView.mounted
    /\ quizView' = TimerEffect([QuizViewUnmounted EXCEPT !.mounted = TRUE,
                                                         !.customConfig = cfg,
                                                         !.fetching = 1])
    /\ QuizFrame

\* generateQuiz / generateBatchQuiz fulfils with data: the rest of the try block
\* of fetchQuiz and its finally
FetchQuizResolves(data) ==
    /\ quizView.mounted /\ quizView.fetching > 0
    /\ LET cfg == quizView.customConfig
           questions == IF cfg # None /\ Len(data) > cfg[1].count
                        THEN SubSeq(data, 1, cfg[1].count) ELSE data
           timed == cfg # None /\ cfg[1].durationSeconds # None
       IN  /\ timed => quizView.now + cfg[1].durationSeconds[1] <= MaxNow
           /\ quizView' =
                [quizView EXCEPT
                   !.quiz = Some(questions),
                   !.userAnswers = [i \in 1..Len(questions) |-> None],
                   !.endTimeRef =
                       IF timed THEN Some(quizView.now + cfg[1].durationSeconds[1])
                       ELSE @,
                   !.timeLeft = IF timed THEN cfg[1].durationSeconds ELSE @,
                   !.isLoading = FALSE,
                   !.fetching = @ - 1]
    /\ QuizFrame

\* generateQuiz / generateBatchQuiz rejects: catch, then finally
FetchQuizRejects ==
    /\ quizView.mounted /\ quizView.fetching > 0
    /\ quizView' = [quizView EXCEPT !.isLoading = FALSE, !.fetching = @ - 1]
    /\ QuizFrame

\* the parent renders again: customConfig is a new object when there is one, so
\* the fetch effect is cleaned up and run again
ParentRenders ==
    /\ quizView.mounted /\ quizView.customConfig # None
    /\ quizView.fetching < MaxFetches
    /\ quizView' = [quizView EXCEPT !.timerIntervalRef = None, !.fetching = @ + 1]
    /\ QuizFrame

\* a second goes by on the clock of a timed test (no other QuizView reads
\* it); the interval callback runs if the interval is set
TimePasses ==
    /\ quizView.mounted /\ isTestMode(quizView)
    /\ LET now == IF quizView.now < MaxNow THEN quizView.now + 1 ELSE quizView.now
           v == [quizView EXCEPT !.now = now]
       IN  quizView' =
             IF v.timerIntervalRef = None THEN v
             ELSE LET diff == v.endTimeRef[1] - now
                  IN  IF diff <= 0
                      THEN Rendered(v, handleFinishTest(
                               [v EXCEPT !.timeLeft = Some(0), !.timerIntervalRef = None],
                               v.timerIntervalRef[1]))
                      ELSE [v EXCEPT !.timeLeft = Some(diff)]
    /\ QuizFrame

\* an option button that is not disabled is clicked
ClickOption(optionIndex) ==
    /\ QuestionScreen(quizView) /\ ~OptionsLocked(quizView)
    /\ quizView.immediateScore < MaxImmediate
    /\ quizView' = handleOptionClick(quizView, optionIndex)
    /\ QuizFrame

\* the Next button, shown before the last question while not submitted
ClickNext ==
    /\ QuestionScreen(quizView) /\ ~quizView.isSubmitted
    /\ quizView.currentQuestionIndex < Len(quizView.quiz[1]) - 1
    /\ quizView' = Rendered(quizView, handleNext(quizView))
    /\ QuizFrame

\* the Submit button, shown on the last question while not submitted
ClickSubmit ==
    /\ QuestionScreen(quizView) /\ ~quizView.isSubmitted
    /\ ~(quizView.currentQuestionIndex < Len(quizView.quiz[1]) - 1)
    /\ quizView' = Rendered(quizView, handleFinishTest(quizView, Closure(quizView)))
    /\ QuizFrame

\* the Previous button, disabled on the first question
ClickPrevious ==
    /\ QuestionScreen(quizView) /\ quizView.currentQuestionIndex # 0
    /\ quizView' = [quizView EXCEPT !.currentQuestionIndex = @ - 1]
    /\ QuizFrame

\* after the submission: "Next Question" / "View Score"
ClickReviewNext ==
    /\ QuestionScreen(quizView) /\ quizView.isSubmitted
    /\ quizView' =
          IF quizView.currentQuestionIndex < Len(quizView.quiz[1]) - 1
          THEN [quizView EXCEPT !.currentQuestionIndex = @ + 1]
          ELSE [quizView EXCEPT !.isReviewMode = FALSE]
    /\ QuizFrame

\* after the submission: "Back to Score"
ClickBackToScore ==
    /\ QuestionScreen(quizView) /\ quizView.isSubmitted
    /\ quizView' = [quizView EXCEPT !.isReviewMode = FALSE]
    /\ QuizFrame

\* on the result screen: "Review Answers"
ClickReviewAnswers ==
    /\ ResultScreen(quizView)
    /\ quizView' = [quizView EXCEPT !.isReviewMode = TRUE, !.currentQuestionIndex = 0]
    /\ QuizFrame

\* onBack, or any other change of view of the parent: the component is
\* unmounted, and what its pending calls set later is dropped
UnmountQuizView ==
    /\ quizView.mounted
    /\ quizView' = QuizViewUnmounted
    /\ QuizFrame

InitQuiz == Init /\ edition = "plain" /\ apiKey = Some("AIza-key")

NextQuiz ==
    \/ \E cfg \in CustomConfigs : MountQuizView(cfg)
    \/ \E data \in Quizzes : FetchQuizResolves(data)
    \/ FetchQuizRejects
    \/ ParentRenders
    \/ TimePasses
    \/ \E optionIndex \in 0..(MaxOptions - 1) : ClickOption(optionIndex)
    \/ ClickNext
    \/ ClickSubmit
    \/ ClickPrevious
    \/ ClickReviewNext
    \/ ClickBackToScore
    \/ ClickReviewAnswers
    \/ UnmountQuizView

SpecQuiz == InitQuiz /\ [][NextQuiz]_vars

\* the fetch settles and the clock goes on, whatever the user does
SpecQuizLive ==
    /\ SpecQuiz
    /\ WF_vars(TimePasses)
    /\ WF_vars(\E data \in Quizzes : FetchQuizResolves(data))

----------------------------------------------------------------------------
(* App.  app holds the useState values of App under their names, the        *)
(* handleStartCourse calls that await their outline, the timers set by      *)
(* handleSaveProfile of Dashboard, whether the mounted QuizView has called  *)
(* onComplete, and two records of the past: the completions since the page  *)
(* was loaded and how the session was last changed (a registration, a login *)
(* or a logout).                                                            *)

QUOTE == "\""
BACKSLASH == "\\"

Names == {<<"Ada">>, <<"Bo", " ", QUOTE, "B", QUOTE, " ", BACKSLASH, "o">>}
University == <<"UNILAG">>
Program == <<"Computer", " ", "Science">>
Level == <<"100", " ", "Level">>

\* the objects Onboarding hands to onComplete
Details ==
    { [program |-> Program, level |-> Level, name |-> n, email |-> e] :
        n \in Names, e \in Emails }

ProfileKeys == <<"university", "program", "level", "name", "email">>

\* a slip: the string is written between quotes as it is
EscapeJsonNot(str) == str

\* JSON's escaping of a string, token by token
EscapeJson(str) ==
    Join([i \in 1..Len(str) |->
            IF str[i] \in {QUOTE, BACKSLASH} THEN <<BACKSLASH, str[i]>> ELSE <<str[i]>>],
         <<>>)

\* JSON.stringify of a profile: the members in the order of the keys
JSONstringify(profile) ==
    <<"{">>
    \o Join([i \in 1..Len(ProfileKeys) |->
                <<QUOTE, ProfileKeys[i], QUOTE, ":", QUOTE>>
                \o EscapeJson(profile[ProfileKeys[i]]) \o <<QUOTE>>],
            <<",">>)
    \o <<"}">>

\* the string literal that starts at text[i], past its opening quote
RECURSIVE ScanString(_, _, _)
ScanString(text, i, acc) ==
    IF i > Len(text) THEN [ok |-> FALSE, value |-> acc, next |-> i]
    ELSE IF text[i] = QUOTE THEN [ok |-> TRUE, value |-> acc, next |-> i + 1]
    ELSE IF text[i] = BACKSLASH
         THEN IF i + 1 > Len(text) THEN [ok |-> FALSE, value |-> acc, next |-> i]
              ELSE ScanString(text, i + 2, Append(acc, text[i + 1]))
         ELSE ScanString(text, i + 1, Append(acc, text[i]))

\* the members of an object from text[i] on
RECURSIVE ParseMembers(_, _, _)
ParseMembers(text, i, obj) ==
    IF ~(i + 4 <= Len(text) /\ text[i] = QUOTE /\ text[i + 2] = QUOTE
         /\ text[i + 3] = ":" /\ text[i + 4] = QUOTE)
    THEN [ok |-> FALSE, value |-> obj]
    ELSE LET str == ScanString(text, i + 5, <<>>)
             now == (text[i + 1] :> str.value) @@ obj
         IN  IF ~str.ok \/ str.next > Len(text) THEN [ok |-> FALSE, value |-> obj]
             ELSE IF text[str.next] = "}"
                  THEN [ok |-> str.next = Len(text), value |-> now]
                  ELSE IF text[str.next] = ","
                       THEN ParseMembers(text, str.next + 1, now)
                       ELSE [ok |-> FALSE, value |-> obj]

\* JSON.parse of an object of strings; ok is FALSE where it throws
JSONparse(text) ==
    IF text = <<>> \/ text[1] # "{" THEN [ok |-> FALSE, value |-> <<>>]
    ELSE ParseMembers(text, 2, <<>>)

\* Math.round of num / den, for num >= 0 and den > 0
MathRound(num, den) == (2 * num + den) \div (2 * den)

ScoreFactor == 20

\* the updater handleQuizComplete hands to setStats
handleQuizComplete(prev, score) ==
    [prev EXCEPT
        !.quizzesTaken = @ + 1,
        !.averageScore =
            IF prev.quizzesTaken = 0 THEN score * ScoreFactor
            ELSE MathRound(prev.averageScore * prev.quizzesTaken
                             + score * ScoreFactor,
                           prev.quizzesTaken + 1)]

\* the numbers of questions Dashboard offers (5, 10, 15, 20, 30, 50), a few
QuestionCounts == {5, 10}
\* the scores followed: none right, and all of ten right
Scores == {0, 10}
DefaultQuestions == 5

\* a slip: the key is left
RemoveLastUserNot(store) == store

\* what localStorage.removeItem('gemini_academy_last_user') leaves
RemoveLastUser(store) == [store EXCEPT ![LastUserKey] = None]

\* handleLogin(email) on state a and storage store
handleLogin(a, store, email) ==
    LET stored == store[UserKey(email)]
        profile == JSONparse(stored[1])
    IN  IF stored # None /\ stored[1] # <<>> /\ profile.ok
        THEN [app |-> [a EXCEPT !.userProfile = Some(profile.value),
                                !.view = "DASHBOARD", !.session = "login"],
              store |-> [store EXCEPT ![LastUserKey] = Some(email)]]
        ELSE [app |-> a, store |-> store]

\* handleLogout
handleLogout(a) ==
    [a EXCEPT !.userProfile = None, !.view = "LANDING", !.session = "logout"]

\* the main layout is rendered (none of the four early returns of App)
MainLayout(a) ==
    /\ a.view \notin {"LANDING", "LOGIN", "ONBOARDING_UNI"}
    /\ ~(a.view = "ONBOARDING_FLOW" /\ a.userProfile # None)

DashboardShown(a) == a.view = "DASHBOARD" /\ a.userProfile # None
CourseViewShown(a) == a.view = "COURSE" /\ a.courseData # None
QuizViewShown(a) == a.view = "QUIZ"

AppFrame == UNCHANGED <<serviceVars, calls, quizView, dashboard>>

\* the page is loaded again: App is mounted anew, what was pending is gone,
\* and the session effect logs the remembered user in
LoadPage ==
    /\ LET lastEmail == localStorage[LastUserKey]
           mounted == [AppInitial EXCEPT !.session = app.session]
           login == handleLogin(mounted, localStorage, lastEmail[1])
       IN  IF lastEmail # None /\ lastEmail[1] # <<>>
           THEN app' = login.app /\ localStorage' = login.store
           ELSE app' = mounted /\ UNCHANGED localStorage
    /\ UNCHANGED registered
    /\ AppFrame

\* the handlers that only call setView
Navigate ==
    /\ \/ app.view = "LANDING" /\ app' = [app EXCEPT !.view = "ONBOARDING_UNI"]
       \/ app.view \in {"LANDING", "ONBOARDING_UNI"} /\ app' = [app EXCEPT !.view = "LOGIN"]
       \/ app.view = "LOGIN" /\ app' = [app EXCEPT !.view = "LANDING"]
       \/ /\ app.view = "ONBOARDING_FLOW" /\ app.userProfile # None
          /\ app' = [app EXCEPT !.view = "ONBOARDING_UNI"]
       \/ /\ MainLayout(app) \/ CourseViewShown(app) \/ QuizViewShown(app)
          /\ app' = [app EXCEPT !.view = "DASHBOARD"]
    /\ UNCHANGED <<localStorage, registered>>
    /\ AppFrame

\* Login calls onLogin(email)
SubmitLogin(email) ==
    /\ app.view = "LOGIN"
    /\ LET login == handleLogin(app, localStorage, email)
       IN  app' = login.app /\ localStorage' = login.store
    /\ UNCHANGED registered
    /\ AppFrame

\* UniversitySelection calls onSelect(uni): handleUniSelect
SelectUniversity ==
    /\ app.view = "ONBOARDING_UNI"
    /\ app' = [app EXCEPT
                 !.userProfile = Some([university |-> University, program |-> <<>>,
                                       level |-> <<>>, name |-> <<>>, email |-> <<>>]),
                 !.view = "ONBOARDING_FLOW"]
    /\ UNCHANGED <<localStorage, registered>>
    /\ AppFrame

\* Onboarding calls onComplete(details): handleOnboardingComplete
CompleteOnboarding(details) ==
    /\ app.view = "ONBOARDING_FLOW" /\ app.userProfile # None
    /\ LET fullProfile == [k \in DOMAIN app.userProfile[1] |->
                             IF k \in DOMAIN details THEN details[k]
                             ELSE app.userProfile[1][k]]
       IN  /\ app' = [app EXCEPT !.userProfile = Some(fullProfile),
                                 !.view = "DASHBOARD", !.session = "registered"]
           /\ localStorage' =
                 [localStorage EXCEPT ![UserKey(details.email)] =
                                          Some(JSONstringify(fullProfile)),
                                      ![LastUserKey] = Some(details.email)]
           /\ registered' = [registered EXCEPT ![details.email] = Some(fullProfile)]
    /\ AppFrame

\* the Sign Out button of the header
SignOut ==
    /\ MainLayout(app) /\ app.userProfile # None
    /\ app' = handleLogout(app)
    /\ localStorage' = RemoveLastUser(localStorage)
    /\ UNCHANGED registered
    /\ AppFrame

\* Dashboard calls onStartCourse(topic): handleStartCourse up to its await
StartCourse ==
    /\ DashboardShown(app)
    /\ app.pending < MaxPending
    /\ app' = [app EXCEPT !.isLoading = TRUE, !.pending = @ + 1]
    /\ UNCHANGED <<localStorage, registered>>
    /\ AppFrame

\* generateCourseOutline fulfils: the rest of the try block, then finally
CourseOutlineResolves ==
    /\ app.pending > 0
    /\ app' = [app EXCEPT !.courseData = Some(<<"outline">>), !.view = "COURSE",
                          !.isLoading = FALSE, !.pending = @ - 1]
    /\ UNCHANGED <<localStorage, registered>>
    /\ AppFrame

\* generateCourseOutline rejects: catch, then finally
CourseOutlineRejects ==
    /\ app.pending > 0
    /\ app' = [app EXCEPT !.isLoading = FALSE, !.pending = @ - 1]
    /\ UNCHANGED <<localStorage, registered>>
    /\ AppFrame

\* Dashboard calls onStartQuiz(topic, count): handleStartQuiz
StartQuiz(count) ==
    /\ DashboardShown(app)
    /\ app' = [app EXCEPT !.quizConfig = Some([count |-> count, durationMinutes |-> None]),
                          !.view = "QUIZ", !.quizSubmitted = FALSE]
    /\ UNCHANGED <<localStorage, registered>>
    /\ AppFrame

\* CourseView calls onTakeQuiz
TakeQuiz ==
    /\ CourseViewShown(app)
    /\ app' = [app EXCEPT !.quizConfig = None, !.view = "QUIZ", !.quizSubmitted = FALSE]
    /\ UNCHANGED <<localStorage, registered>>
    /\ AppFrame

\* QuizView calls onComplete(score), once while it is mounted, with a
\* score between 0 and the number of its questions
QuizCompletes(score) ==
    /\ QuizViewShown(app) /\ ~app.quizSubmitted
    /\ app.completions < MaxCompletions
    /\ score <= (IF app.quizConfig = None THEN DefaultQuestions
                      ELSE app.quizConfig[1].count)
    /\ app' = [app EXCEPT !.stats = handleQuizComplete(@, score),
                          !.quizSubmitted = TRUE, !.completions = @ + 1]
    /\ UNCHANGED <<localStorage, registered>>
    /\ AppFrame

\* handleSaveProfile of Dashboard: onUpdateProfile(updated) is
\* handleUpdateProfile, and the timer of the logout is set
SaveProfile(editName, editEmail) ==
    /\ DashboardShown(app)
    /\ app.logoutTimers < MaxTimers
    /\ LET updated == [app.userProfile[1] EXCEPT !.name = editName, !.email = editEmail]
       IN  /\ app' = [app EXCEPT !.userProfile = Some(updated), !.logoutTimers = @ + 1]
           /\ localStorage' = [localStorage EXCEPT ![UserKey(editEmail)] =
                                                      Some(JSONstringify(updated))]
           /\ registered' = [registered EXCEPT ![editEmail] = Some(updated)]
    /\ AppFrame

\* the timer of handleSaveProfile fires: onLogout()
LogoutTimerFires ==
    /\ app.logoutTimers > 0
    /\ app' = [handleLogout(app) EXCEPT !.logoutTimers = @ - 1]
    /\ localStorage' = RemoveLastUser(localStorage)
    /\ UNCHANGED registered
    /\ AppFrame

InitApp == Init /\ edition = "plain" /\ apiKey = Some("AIza-key")

NextApp ==
    \/ LoadPage
    \/ Navigate
    \/ \E email \in Emails : SubmitLogin(email)
    \/ SelectUniversity
    \/ \E details \in Details : CompleteOnboarding(details)
    \/ SignOut
    \/ StartCourse
    \/ CourseOutlineResolves
    \/ CourseOutlineRejects
    \/ \E count \in QuestionCounts : StartQuiz(count)
    \/ TakeQuiz
    \/ \E score \in Scores : QuizCompletes(score)
    \/ \E editName \in Names, editEmail \in Emails : SaveProfile(editName, editEmail)
    \/ LogoutTimerFires

SpecApp == InitApp /\ [][NextApp]_vars

----------------------------------------------------------------------------
(* Dashboard: the chat and the favourite books.  A message is a record of   *)
(* its role, its kind of text and the number of the request it belongs to:  *)
(* the n-th message the user sends is request n, and the reply or the error *)
(* message that handleSendMessage appends for it carries the same number.   *)

UserMessage(n) == [role |-> "user", text |-> "input", request |-> n]
ModelMessage(n) == [role |-> "model", text |-> "reply", request |-> n]
ErrorMessage(n) == [role |-> "model", text |-> "error", request |-> n]

\* Date.now().toString() of the persist effect: later sessions get later ids
NewSessionId(d) == Len(d.chatSessions) + 1

\* the effect on [chatMessages], run on the state d of the render
PersistCurrentSession(d) ==
    IF Len(d.chatMessages) > 0
    THEN IF d.currentSessionId = None
         THEN [d EXCEPT !.currentSessionId = Some(NewSessionId(d)),
                        !.chatSessions =
                            <<[id |-> NewSessionId(d), messages |-> d.chatMessages]>> \o @]
         ELSE [d EXCEPT !.chatSessions =
                            [i \in 1..Len(@) |->
                                IF @[i].id = d.currentSessionId[1]
                                THEN [@[i] EXCEPT !.messages = d.chatMessages]
                                ELSE @[i]]]
    ELSE d

\* setChatMessages(prev => [...prev, message]), then the effect
AppendMessage(d, message) ==
    PersistCurrentSession([d EXCEPT !.chatMessages = Append(@, message)])

Books ==
    { [title |-> "Calculus", author |-> "Stewart"],
      [title |-> "Calculus", author |-> "Spivak"],
      [title |-> "Algebra", author |-> "Lang"],
      [title |-> "Algebra", author |-> "Artin"],
      [title |-> "Topology", author |-> "Munkres"] }

\* a slip: the book is looked up as an object, not by its title
ToggledByObject(favoriteBooks, book) ==
    IF \E i \in 1..Len(favoriteBooks) : favoriteBooks[i] = book
    THEN SelectSeq(favoriteBooks, LAMBDA b : b # book)
    ELSE Append(favoriteBooks, book)

\* newFavs of toggleFavorite
Toggled(favoriteBooks, book) ==
    IF \E i \in 1..Len(favoriteBooks) : favoriteBooks[i].title = book.title
    THEN SelectSeq(favoriteBooks, LAMBDA b : b.title # book.title)
    ELSE Append(favoriteBooks, book)

DashFrame == UNCHANGED <<serviceVars, calls, quizView, app, localStorage, registered>>

\* handleSendMessage up to its await: the user's message is appended
handleSendMessage ==
    /\ dashboard.sent < MaxSent
    /\ LET n == dashboard.sent + 1
       IN  dashboard' = [AppendMessage(dashboard, UserMessage(n)) EXCEPT
                            !.sent = n, !.inFlight = @ \cup {n}]
    /\ DashFrame

\* sendMessage fulfils: the reply is appended
ChatReplyArrives(n) ==
    /\ n \in dashboard.inFlight
    /\ dashboard' = [AppendMessage(dashboard, ModelMessage(n)) EXCEPT !.inFlight = @ \ {n}]
    /\ DashFrame

\* sendMessage rejects: the catch block appends the error message
ChatReplyFails(n) ==
    /\ n \in dashboard.inFlight
    /\ dashboard' = [AppendMessage(dashboard, ErrorMessage(n)) EXCEPT !.inFlight = @ \ {n}]
    /\ DashFrame

\* the + button of the history
startNewChat ==
    /\ dashboard' = PersistCurrentSession(
                       [dashboard EXCEPT !.currentSessionId = None, !.chatMessages = <<>>])
    /\ DashFrame

\* a saved session is clicked in the history
SelectSession(i) ==
    /\ i \in 1..Len(dashboard.chatSessions)
    /\ dashboard' = PersistCurrentSession(
                       [dashboard EXCEPT
                           !.chatMessages = dashboard.chatSessions[i].messages,
                           !.currentSessionId = Some(dashboard.chatSessions[i].id)])
    /\ DashFrame

\* the heart of a book is clicked
toggleFavorite(book) ==
    /\ dashboard' =
          [dashboard EXCEPT
              !.favoriteBooks = Toggled(@, book),
              !.undoToast =
                  IF \E i \in 1..Len(dashboard.favoriteBooks) :
                        dashboard.favoriteBooks[i].title = book.title
                  THEN @ ELSE Some(book)]
    /\ DashFrame

\* Undo is clicked on the toast
handleUndoFavorite ==
    /\ dashboard.undoToast # None
    /\ dashboard' =
          [dashboard EXCEPT
              !.favoriteBooks =
                  SelectSeq(@, LAMBDA b : b.title # dashboard.undoToast[1].title),
              !.undoToast = None]
    /\ DashFrame

\* the timer of the toast fires
UndoTimerFires ==
    /\ dashboard.undoToast # None
    /\ dashboard' = [dashboard EXCEPT !.undoToast = None]
    /\ DashFrame

InitDash == Init /\ edition = "plain" /\ apiKey = Some("AIza-key")

\* the chat section
NextChat ==
    \/ handleSendMessage
    \/ \E n \in 1..MaxSent : ChatReplyArrives(n)
    \/ \E n \in 1..MaxSent : ChatReplyFails(n)
    \/ startNewChat
    \/ \E i \in 1..(2 * MaxSent) : SelectSession(i)

SpecChat == InitDash /\ [][NextChat]_vars

\* the library section
NextFavorites ==
    \/ \E book \in Books : toggleFavorite(book)
    \/ handleUndoFavorite
    \/ UndoTimerFires

SpecFavorites == InitDash /\ [][NextFavorites]_vars

----------------------------------------------------------------------------
(* Properties of retryWithBackoff                                           *)

\* the operations whose failures reach retryWithBackoff
Propagating == {"operation", "chapterContent"}

\* a retryWithBackoff call is under way or has ended
Running == policy # None

\* C1: an operation that fails with a rate-limit signature on every attempt is
\* invoked exactly maxRetries + 1 times, never more, and the call then fails
\* with the error of that last attempt.
C1_RetryBound ==
    /\ Running => attempts <= policy[1].maxRetries + 1
    /\ pc = "waiting" => attempts <= policy[1].maxRetries
    /\ (pc = "done" /\ outcome = "thrown" /\ isRateLimit(thrown[1])) =>
          /\ attempts = policy[1].maxRetries + 1
          /\ Len(waits) = policy[1].maxRetries
          /\ thrown = netError

C1_Witness ==
    /\ pc = "done" /\ op = "operation" /\ outcome = "thrown"
    /\ isRateLimit(thrown[1])
    /\ policy[1].maxRetries = DefaultRetries
    /\ attempts = DefaultRetries + 1

\* C2: an attempt that fails with an error classified Other ends the call at
\* once: no backoff wait and no further attempt follow it, and the call fails
\* with that same error, whatever budget remains.
C2_NoRetryOnOther ==
    (op \in Propagating /\ netError # None /\ ~isRateLimit(netError[1])) =>
        /\ pc = "done"
        /\ outcome = "thrown"
        /\ thrown = netError
        /\ Len(waits) = attempts - 1

C2_Witness ==
    /\ pc = "done" /\ op = "operation" /\ outcome = "thrown"
    /\ ~isRateLimit(thrown[1])
    /\ thrown[1].status = Some(500)
    /\ retries > 0
    /\ attempts = 2

\* C3: the wait before the k-th retry is initialDelay * 2^(k-1), one wait per
\* retry; with the default policy the waits are 2000, 4000 and 8000 ms.
DefaultWaits == <<2000, 4000, 8000>>

C3_BackoffArithmetic ==
    Running =>
        /\ \A k \in 1..Len(waits) :
              waits[k] = policy[1].initialDelay * Multiplier^(k - 1)
        /\ Len(waits) = IF pc = "waiting" THEN attempts ELSE attempts - 1
        /\ (policy[1].maxRetries = DefaultRetries
            /\ policy[1].initialDelay = DefaultDelay) =>
              waits = SubSeq(DefaultWaits, 1, Len(waits))

C3_Witness ==
    /\ op = "operation"
    /\ policy = Some([maxRetries |-> DefaultRetries, initialDelay |-> DefaultDelay])
    /\ attempts = 4
    /\ waits = DefaultWaits

\* C4: when the operation fails with a rate-limit signature on attempts 1..k-1
\* and succeeds with v on attempt k, the call returns exactly v, attempt k is
\* the last, and the budget has gone down by one per failed attempt.
C4_EventualSuccess ==
    (pc = "done" /\ outcome = "returned" /\ op = "operation") =>
        /\ result = response
        /\ thrown = None
        /\ attempts = Len(waits) + 1
        /\ attempts <= policy[1].maxRetries + 1
        /\ retries = policy[1].maxRetries - (attempts - 1)
        /\ attempts > 1 => isRateLimit(lastError[1])

C4_Witness ==
    /\ pc = "done" /\ outcome = "returned" /\ op = "operation"
    /\ attempts = 3
    /\ result = Some("v1")
    /\ retries = policy[1].maxRetries - 2

----------------------------------------------------------------------------
(* Properties of the accessors                                              *)

\* the accessors for programs, news, subjects, recommendations and book search
ListAccessors == {"programs", "news", "subjects", "recommendBooks", "findBooks"}

\* the FallbackSet of each record kind
FallbackSet(ed, kind) ==
    CASE kind = "programs" -> IF ed = "demo" THEN InitialMockPrograms
                              ELSE PlainProgramsOnError
      [] kind = "subjects" -> IF ed = "demo" THEN getMockSubjects ELSE PlainSubjectsOnError
      [] kind = "news" -> MockNews
      [] kind \in {"recommendBooks", "findBooks"} -> MockBooks

\* the last call was one of the list accessors, went to the network and has ended
Ended == pc = "done" /\ op \in ListAccessors /\ policy # None
Failed == Ended /\ netError # None
Succeeded == Ended /\ response # None

\* C5: a network failure goes through retryWithBackoff before the accessor
\* returns its fallback: maxRetries + 1 attempts with backoff when it is a
\* rate-limit failure, one attempt otherwise.
C5_FallbackAfterRetries ==
    Failed =>
        IF isRateLimit(netError[1])
        THEN attempts = DefaultRetries + 1 /\ waits = DefaultWaits
        ELSE attempts = 1 /\ waits = <<>>

\* C6: whatever the network call does, the list accessors end with a value and
\* never with a thrown error.
C6_NeverRaises ==
    (op \in ListAccessors /\ pc = "done") =>
        /\ outcome = "returned"
        /\ result # None
        /\ thrown = None

C6_Witness ==
    /\ pc = "done" /\ op = "recommendBooks" /\ outcome = "returned"
    /\ netError # None /\ isRateLimit(netError[1])

\* C7: when the network call fails, the accessor returns the non-empty
\* FallbackSet of its record kind.
C7_FallbackOnFailure ==
    Failed =>
        /\ result = Some(FallbackSet(edition, op))
        /\ result # Some(<<>>)

\* C8: when the network call succeeds and the program-list parser yields fewer
\* than 5 entries, generateDegreePrograms returns the FallbackSet; with 5 or
\* more it returns the parsed entries.  (The parser runs on a non-empty text;
\* the empty text is C9's case.)
ParsedPrograms ==
    IF edition = "demo" THEN ProgramsParsedDemo(TextOf(response[1]))
    ELSE ProgramsParsedPlain(TextOf(response[1]))

C9_EmptyMeansFallback ==
    Succeeded =>
        /\ result # Some(<<>>)
        /\ TextOf(response[1]) = <<>> => result = Some(FallbackSet(edition, op))

\* C10: a returned sequence is exactly the FallbackSet or is built only from
\* what the response holds, never a mix of the two, and the FallbackSet itself
\* stays as it was loaded.
Range(f) == {f[i] : i \in DOMAIN f}

\* x is empty or a run of characters of text
IsPart(x, text) == x = <<>> \/ Includes(text, x)

IsCitation(x, resp) == \E k \in DOMAIN resp.chunks : resp.chunks[k] = Some(x)

IsSearchUrl(x) == x # <<>> /\ Head(x) = "https://www.google.com/search?q="

FromResponse(kind, rec, resp) ==
    LET text == TextOf(resp)
    IN  CASE kind = "programs" -> IsPart(rec, text)
          [] kind = "news" ->
                /\ IsPart(rec.headline, text) /\ IsPart(rec.date, text)
                /\ IsPart(rec.snippet, text)
                /\ \/ IsPart(rec.link, text) \/ IsCitation(rec.link, resp)
                   \/ rec.link = HASH \/ IsSearchUrl(rec.link)
          [] kind = "subjects" ->
                /\ IsPart(rec.code, text) /\ IsPart(rec.title, text)
                /\ IsPart(rec.description, text) \/ rec.description = DefaultDescription
          [] kind = "findBooks" ->
                /\ IsPart(rec.title, text) /\ IsPart(rec.author, text)
                /\ IsPart(rec.description, text)
                /\ \/ IsCitation(rec.link, resp) \/ rec.link = HASH
                   \/ IsSearchUrl(rec.link)
          [] kind = "recommendBooks" ->
                /\ resp.json.books # None
                /\ rec \in Range(resp.json.books[1])

C10_Wholesale ==
    /\ mockPrograms = InitialMockPrograms
    /\ (pc = "done" /\ op \in ListAccessors) =>
          \/ result = Some(<<>>)
          \/ result = Some(FallbackSet(edition, op))
          \/ /\ response # None
             /\ \A rec \in Range(result[1]) :
                   /\ FromResponse(op, rec, response[1])
                   /\ rec \notin Range(FallbackSet(edition, op))

C10_Witness ==
    /\ Succeeded /\ op = "programs"
    /\ TextOf(response[1]) # <<>>
    /\ Len(Split(TextOf(response[1]), SEP3)) = 1
    /\ result = Some(InitialMockPrograms)

----------------------------------------------------------------------------
(* Demo mode                                                                *)

\* the exported functions, and sendMessage of the chats they return
Exported == Accessors \cup ChatFactories \cup {"sendMessage"}

\* what a call returns in demo mode
Canned ==
    IF op \in ChatFactories THEN createMockChat ELSE MockData(op, mockPrograms)

\* C11: with a credential that is absent, empty, "undefined" or shorter than 5
\* characters, no call of an accessor, of a chat factory or of the chat it
\* returned ever sends a request to the AI service, in any sequence of calls,
\* and every call returns its canned data.
C11_DemoModeNoRequest ==
    MockModeOf(apiKey) =>
        /\ ~requested
        /\ op \in Exported =>
              /\ pc \notin {"inflight", "waiting", "sending"}
              /\ pc = "done" => (outcome = "returned" /\ result = Some(Canned))

\* the edition with demo mode keeps C11
C11_DemoEdition == edition = "demo" => C11_DemoModeNoRequest

----------------------------------------------------------------------------
(* Properties of the parsers                                                *)

\* the lines of a subjects response that have the form CODE|TITLE..., in order
SubjectLines(text) == SelectSeq(Split(text, NEWLINE), LAMBDA l : Includes(l, PIPE))

\* C12: from a response with more than 8 well-formed subject lines
\* generateSemesterSubjects returns the subjects of the first 8 of them, in
\* their order; from a response with 1 to 8 it returns the subjects of all.
C12_SubjectsTruncation ==
    (Succeeded /\ op = "subjects") =>
        LET wf == SubjectLines(TextOf(response[1]))
            n == Len(wf)
            out == result[1]
        IN  n >= 1 =>
              /\ Len(out) = IF n > SubjectCap THEN SubjectCap ELSE n
              /\ \A k \in 1..Len(out) :
                    /\ out[k].code = Trim(Split(wf[k], PIPE)[1])
                    /\ out[k].title = Trim(Split(wf[k], PIPE)[2])

C12_Witness ==
    /\ Succeeded /\ op = "subjects"
    /\ Len(SubjectLines(TextOf(response[1]))) = SubjectCap + 1
    /\ Len(result[1]) = SubjectCap
    /\ result[1][SubjectCap].code = <<"CSC", "8">>

\* the segments of a news or book response that have at least 3 fields, in order
WellFormed(text) ==
    SelectSeq(Split(text, SEP3), LAMBDA seg : Len(Split(seg, SEP2)) >= MinFields)

Field(seg, i) == Trim(Split(seg, SEP2)[i])

Min(a, b) == IF a < b THEN a ELSE b

\* C13: generateUniversityNews never returns more than 4 items, and what it
\* returns from a response are the items of the first well-formed segments,
\* in the order of the response.
C13_NewsCap ==
    /\ (pc = "done" /\ op = "news") => Len(result[1]) <= NewsCap
    /\ (Succeeded /\ op = "news") =>
          LET wf == WellFormed(TextOf(response[1]))
              out == result[1]
          IN  /\ Len(out) = Min(Len(wf), NewsCap)
              /\ \A k \in 1..Len(out) :
                    /\ out[k].headline =
                          IF edition = "demo" THEN Field(wf[k], 1)
                          ELSE StripLeadingNonWord(Field(wf[k], 1))
                    /\ out[k].date = Field(wf[k], 2)
                    /\ out[k].snippet = Field(wf[k], 3)

C13_Witness ==
    /\ Succeeded /\ op = "news"
    /\ Len(WellFormed(TextOf(response[1]))) = NewsCap + 1
    /\ Len(result[1]) = NewsCap
    /\ result[1][NewsCap].snippet = <<"Snippet", "4">>

\* C14: the news and book parsers drop a segment with fewer than 3 fields and
\* make exactly one record of every segment with at least 3, the records
\* standing in the order of their segments, whatever segments were dropped
\* between them.
C14_MalformedDropped ==
    (Succeeded /\ op \in {"news", "findBooks"}) =>
        LET wf == WellFormed(TextOf(response[1]))
            out == parsed[1]
        IN  /\ Len(out) = Len(wf)
            /\ \A k \in 1..Len(out) :
                  IF op = "news"
                  THEN /\ out[k].date = Field(wf[k], 2)
                       /\ out[k].snippet = Field(wf[k], 3)
                  ELSE /\ out[k].author = Field(wf[k], 2)
                       /\ out[k].description = Field(wf[k], 3)

\* a short segment stands between two well-formed ones
C14_Witness ==
    /\ Succeeded /\ op = "findBooks"
    /\ LET segs == Split(TextOf(response[1]), SEP3)
       IN  /\ Len(segs) = 3
           /\ Len(Split(segs[2], SEP2)) < MinFields
    /\ Len(parsed[1]) = 2
    /\ parsed[1][2].author = <<"Author", "3">>

\* the fields a record of each kind must have
Populated(kind, rec) ==
    CASE kind = "programs" -> rec # <<>>
      [] kind = "news" -> rec.headline # <<>> /\ rec.date # <<>> /\ rec.snippet # <<>>
      [] kind = "subjects" -> rec.code # <<>> /\ rec.title # <<>>
      [] kind = "findBooks" ->
            rec.title # <<>> /\ rec.author # <<>> /\ rec.description # <<>>

\* C15: every record the programs, news, subjects and book parsers emit has
\* all of its required fields non-empty after trimming; a segment whose
\* required fields are there by count but blank is dropped.
C15_FullyPopulated ==
    (Succeeded /\ parsed # None) =>
        \A k \in 1..Len(parsed[1]) : Populated(op, parsed[1][k])

\* C16: no news or book record is returned with an implausible link: a link
\* is never "#" and never shorter than 5 characters, and a link that is not
\* the record's own embedded link is a grounding citation or a synthesized
\* search URL.
C16_LinkSubstitution ==
    (Succeeded /\ op \in {"news", "findBooks"}) =>
        \A k \in 1..Len(result[1]) :
            LET link == result[1][k].link
            IN  /\ link # HASH
                /\ StrLen(link) >= MinLinkLength
                /\ \/ IsPart(link, TextOf(response[1]))
                   \/ IsCitation(link, response[1])
                   \/ IsSearchUrl(link)

\* the accessors that parse delimited text
ParserKinds == {"programs", "news", "subjects", "findBooks"}

\* the response holds nothing the parser of the kind can make a record of
NothingWellFormed(kind, text) ==
    CASE kind \in {"news", "findBooks"} -> WellFormed(text) = <<>>
      [] kind = "subjects" -> SubjectLines(text) = <<>>
      [] kind = "programs" ->
            \A seg \in Range(Split(text, SEP3) \o Split(text, NEWLINE)) : Trim(seg) = <<>>

\* C17: whatever the response text (no delimiter, only delimiters, too few
\* fields), the programs, news, subjects and book parsers end without raising
\* an error, and where nothing is well-formed they leave an empty sequence.
C17_ExtractorNeverRaises ==
    (Succeeded /\ op \in ParserKinds) =>
        /\ ~ParserThrows(op, response[1])
        /\ outcome = "returned" /\ thrown = None
        /\ TextOf(response[1]) # <<>> => parsed # None
        /\ (parsed # None /\ NothingWellFormed(op, TextOf(response[1]))) =>
              parsed = Some(<<>>)

\* a text with a field delimiter but too few fields, and nothing else
C17_Witness ==
    /\ Succeeded /\ op = "news"
    /\ Includes(TextOf(response[1]), SEP2)
    /\ ~Includes(TextOf(response[1]), SEP3)
    /\ parsed = Some(<<>>)
    /\ result = Some(<<>>)

\* the response text is the empty string (or is missing, which the accessors
\* read as the empty string)
EmptyText(resp) == resp.text \in {None, Some(<<>>)}

\* C18: on the empty string as response text every parser variant (program
\* list, subjects, news, books) produces zero records and raises no error.
C18_EmptyInput ==
    (Succeeded /\ op \in ParserKinds /\ EmptyText(response[1])) =>
        /\ outcome = "returned" /\ thrown = None
        /\ IF op = "programs" THEN parsed = None /\ result = Some(<<>>)
           ELSE parsed = Some(<<>>)

C18_Witness ==
    /\ Succeeded /\ op = "subjects" /\ edition = "plain"
    /\ response[1].text = Some(<<>>)
    /\ parsed = Some(<<>>)
    /\ result = Some(<<>>)

----------------------------------------------------------------------------
(* Classification of failures                                               *)

\* the message holds the characters 4, 2, 9 in a row
Has429(m) ==
    \E i \in 1..(Len(m) - 2) : m[i] = "4" /\ m[i + 1] = "2" /\ m[i + 2] = "9"

HasExhausted(m) == \E i \in 1..Len(m) : m[i] = "RESOURCE_EXHAUSTED"

\* the classification as the claim states it
RateLimited(e) ==
    \/ e.status = Some(429)
    \/ e.code = Some(429)
    \/ e.message # None /\ (Has429(e.message[1]) \/ HasExhausted(e.message[1]))

\* C19: a failure is taken as rate-limited (it is retried while budget is
\* left) exactly when its status is 429, or its code is 429, or its message
\* holds "429" or "RESOURCE_EXHAUSTED"; every other failure, also one with no
\* status, code or message, is taken as Other (it is thrown at once).
C19_Classification ==
    /\ (op \in Propagating /\ pc = "waiting") => RateLimited(netError[1])
    /\ (op \in Propagating /\ pc = "done" /\ outcome = "thrown" /\ retries > 0) =>
          ~RateLimited(thrown[1])
    /\ (op \in Propagating /\ pc = "inflight" /\ attempts > 1) =>
          RateLimited(lastError[1])

C19_Witness ==
    /\ pc = "done" /\ op = "operation" /\ outcome = "thrown" /\ retries > 0
    /\ thrown = Some([status |-> None, code |-> None, message |-> None])

----------------------------------------------------------------------------
(* Order of the attempts                                                    *)

\* the history of one call: start, then (fail, wait, elapsed, start) per retry,
\* then success or fail at the end
InOrder(events) ==
    \A i \in 1..Len(events) :
        CASE events[i] = "start" ->
                i = 1 \/ (i >= 4 /\ events[i - 1] = "elapsed" /\ events[i - 2] = "wait"
                                 /\ events[i - 3] = "fail")
          [] events[i] \in {"fail", "success"} -> i > 1 /\ events[i - 1] = "start"
          [] events[i] = "wait" -> events[i - 1] = "fail"
          [] events[i] = "elapsed" -> events[i - 1] = "wait"

\* C20: within one retryWithBackoff call at most one attempt is in flight at
\* any time, and an attempt after the first starts only when the attempt before
\* it has failed and the backoff wait after that failure has elapsed, also
\* while other calls run side by side.
C20_SequentialRetries ==
    \A c \in Calls :
        /\ calls[c].inflight <= 1
        /\ calls[c].inflight + calls[c].timers <= 1
        /\ InOrder(calls[c].events)

\* call 1 is in its third attempt while call 2 waits for its backoff timer
C20_Witness ==
    /\ calls[1].inflight = 1
    /\ Len(SelectSeq(calls[1].events, LAMBDA ev : ev = "start")) = 3
    /\ calls[2].pc = "awaitTimer" /\ calls[2].timers = 1

----------------------------------------------------------------------------
(* Grounding citations                                                      *)

\* the place, among all segments of the text, of the k-th well-formed one
SegmentIndex(text, k) ==
    LET segs == Split(text, SEP3)
        wf(i) == Len(Split(segs[i], SEP2)) >= MinFields
    IN  CHOOSE i \in 1..Len(segs) :
            wf(i) /\ Cardinality({h \in 1..i : wf(h)}) = k

\* C21: a news or book record whose link comes from the grounding citations
\* carries the citation at the index of its segment among all segments of the
\* "|||" split, dropped segments counted, not the citation at its place among
\* the records.
C21_CitationAlignment ==
    (Succeeded /\ op \in {"news", "findBooks"}) =>
        LET resp == response[1]
            text == TextOf(resp)
        IN  \A k \in 1..Len(parsed[1]) :
                LET link == parsed[1][k].link
                    i == SegmentIndex(text, k)
                IN  (IsCitation(link, resp) /\ ~IsPart(link, text)) =>
                        /\ i <= Len(resp.chunks)
                        /\ resp.chunks[i] = Some(link)

\* a record made of the third segment, the second of the records since a
\* segment before it was dropped, carries the citation of index 2
C21_Witness ==
    /\ Succeeded /\ op = "findBooks" /\ edition = "plain"
    /\ Len(parsed[1]) >= 2
    /\ SegmentIndex(TextOf(response[1]), 2) = 3
    /\ parsed[1][2].link = <<"https://cite.ng/", "2">>
    /\ response[1].chunks[2] = None

----------------------------------------------------------------------------
(* QuizView: submission                                                     *)

\* the questions of the loaded quiz whose recorded answer is the correct one
CorrectlyAnswered(v) ==
    {q \in 1..Len(v.quiz[1]) :
        q \in DOMAIN v.userAnswers /\ v.userAnswers[q] = Some(v.quiz[1][q])}

\* C22: a mounted QuizView hands a score to onComplete at most once; once
\* isSubmitted is true it stays true and a click on an option changes nothing;
\* the score handed over is the number of questions whose recorded answer is
\* the correctAnswerIndex, between 0 and the number of questions.
C22_SubmitOnce ==
    /\ [](/\ Len(quizView.onComplete) <= 1
          /\ quizView.isSubmitted =>
                \A optionIndex \in 0..(MaxOptions - 1) :
                    handleOptionClick(quizView, optionIndex) = quizView)
    /\ [][/\ (quizView.isSubmitted /\ quizView'.mounted) =>
                /\ quizView'.isSubmitted
                /\ (\E optionIndex \in 0..(MaxOptions - 1) : ClickOption(optionIndex))
                      => quizView'.userAnswers = quizView.userAnswers
          /\ (quizView'.mounted /\ quizView'.onComplete # quizView.onComplete) =>
                /\ quizView.quiz # None
                /\ quizView'.onComplete =
                      Append(quizView.onComplete,
                             Cardinality(CorrectlyAnswered(quizView)))
                /\ Cardinality(CorrectlyAnswered(quizView)) \in 0..Len(quizView.quiz[1])
                /\ quizView'.isSubmitted /\ ~quizView.isSubmitted]_vars

\* a timed quiz of two questions, both answered and one of them right, has been
\* submitted with score 1, and the user is back on its first question
C22_Witness ==
    /\ quizView.mounted /\ isTestMode(quizView) /\ quizView.isSubmitted
    /\ quizView.quiz # None /\ Len(quizView.quiz[1]) = 2
    /\ \A q \in 1..2 : quizView.userAnswers[q] # None
    /\ quizView.onComplete = <<1>>
    /\ quizView.isReviewMode /\ quizView.currentQuestionIndex = 0

\* C23: without a time limit, Next, Previous and option clicks leave the
\* recorded answer of every answered question as it is, and a click on a
\* question that has its answer adds nothing to immediateScore.
C23_ImmediateFinal ==
    [][(/\ ~isTestMode(quizView)
        /\ \/ ClickNext
           \/ ClickPrevious
           \/ \E optionIndex \in 0..(MaxOptions - 1) : ClickOption(optionIndex))
       => /\ \A q \in DOMAIN quizView.userAnswers :
                quizView.userAnswers[q] # None =>
                    quizView'.userAnswers[q] = quizView.userAnswers[q]
          /\ AnswerAt(quizView.userAnswers, quizView.currentQuestionIndex) # None =>
                quizView'.immediateScore = quizView.immediateScore]_vars

----------------------------------------------------------------------------
(* QuizView: the countdown                                                  *)

\* a timed quiz is loaded and its deadline has passed
DeadlinePassed ==
    /\ quizView.mounted /\ isTestMode(quizView)
    /\ quizView.quiz # None /\ quizView.endTimeRef # None
    /\ quizView.now >= quizView.endTimeRef[1]

\* C24: in a timed quiz that has loaded, once the deadline has passed the quiz
\* is submitted in the end (isSubmitted is true and onComplete has had the
\* score), whatever the user does or does not do, unless the QuizView is left.
C24_AutoSubmit ==
    DeadlinePassed ~>
        \/ quizView.isSubmitted /\ quizView.onComplete # <<>>
        \/ ~quizView.mounted


----------------------------------------------------------------------------
(* C25: learning stats stay in range: after any sequence of quiz            *)
(* completions, with scores from 0 to the number of questions, quizzesTaken *)
(* is the number of completions and averageScore is a percentage between 0  *)
(* and 100.                                                                 *)
C25_StatsInRange ==
    /\ app.stats.quizzesTaken = app.completions
    /\ app.stats.averageScore \in 0..100

----------------------------------------------------------------------------
(* C26: authenticated views imply a profile: whenever view is DASHBOARD,    *)
(* COURSE or QUIZ, userProfile is not null, also when a logout happens      *)
(* while handleStartCourse awaits its outline.                              *)
C26_AuthenticatedViews ==
    app.view \in {"DASHBOARD", "COURSE", "QUIZ"} => app.userProfile # None

----------------------------------------------------------------------------
(* C28: registration and login round trip: handleLogin(e), called by the    *)
(* login form or by the session effect on mount, sets userProfile to        *)
(* exactly the profile stored under e and view to DASHBOARD; for an email   *)
(* with no stored profile it leaves userProfile and view unchanged.         *)
LoggedInAs(email) ==
    IF registered[email] # None
    THEN app'.userProfile = registered[email] /\ app'.view = "DASHBOARD"
    ELSE app'.userProfile = app.userProfile /\ app'.view = app.view

----------------------------------------------------------------------------
(* C29: logout ends the remembered session: handleLogout leaves userProfile *)
(* null, view LANDING and no remembered last user, and leaves the stored    *)
(* profiles as they are; a mount of App that follows a logout logs nobody   *)
(* in and stays on LANDING.                                                 *)
C29_LogoutEndsSession ==
    [][/\ SignOut \/ LogoutTimerFires
            => /\ app'.userProfile = None
               /\ app'.view = "LANDING"
               /\ localStorage'[LastUserKey] = None
               /\ \A email \in Emails :
                     localStorage'[UserKey(email)] = localStorage[UserKey(email)]
       /\ app.session = "logout" /\ LoadPage
            => app'.userProfile = None /\ app'.view = "LANDING"]_vars

\* the page has been loaded after a logout: a profile is stored, nobody is
\* remembered, nobody is logged in
C29_Witness ==
    /\ app.session = "logout"
    /\ app.view = "LANDING"
    /\ app.userProfile = None
    /\ localStorage[LastUserKey] = None
    /\ \E email \in Emails : localStorage[UserKey(email)] # None


----------------------------------------------------------------------------
(* C27: chat replies stay in their conversation: the reply or the error     *)
(* message for a request is found only in lists of messages that hold the   *)
(* user's message of that request before it, in the open conversation and   *)
(* in every saved session.                                                  *)
RepliesFollowRequests(messages) ==
    \A i \in 1..Len(messages) :
        messages[i].role = "model"
            => \E j \in 1..(i - 1) : messages[j] = UserMessage(messages[i].request)

C27_RepliesStay ==
    /\ RepliesFollowRequests(dashboard.chatMessages)
    /\ \A k \in 1..Len(dashboard.chatSessions) :
          RepliesFollowRequests(dashboard.chatSessions[k].messages)

----------------------------------------------------------------------------
(* C30: favourites are unique by title: after any toggles and undos no two  *)
(* favourites have the same title, and undo removes exactly the book the    *)
(* toast is about; toggling a book twice restores the list when no          *)
(* favourite had its title, and otherwise leaves the other favourites with  *)
(* the toggled book after them.                                             *)
UniqueTitles(favoriteBooks) ==
    \A i, j \in 1..Len(favoriteBooks) :
        favoriteBooks[i].title = favoriteBooks[j].title => i = j

HasTitle(favoriteBooks, book) ==
    \E i \in 1..Len(favoriteBooks) : favoriteBooks[i].title = book.title

UndoRemovesAdded ==
    handleUndoFavorite
        => dashboard'.favoriteBooks =
              SelectSeq(dashboard.favoriteBooks, LAMBDA b : b # dashboard.undoToast[1])

C30_FavoritesUnique ==
    /\ [](/\ UniqueTitles(dashboard.favoriteBooks)
          /\ \A book \in Books :
                Toggled(Toggled(dashboard.favoriteBooks, book), book)
                    = IF HasTitle(dashboard.favoriteBooks, book)
                      THEN Append(SelectSeq(dashboard.favoriteBooks,
                                            LAMBDA b : b.title # book.title), book)
                      ELSE dashboard.favoriteBooks)
    /\ [][UndoRemovesAdded]_vars

(* C30 as stated: toggling any book twice restores the list.                *)
C30_ToggleTwiceRestores ==
    /\ UniqueTitles(dashboard.favoriteBooks)
    /\ \A book \in Books :
          Toggled(Toggled(dashboard.favoriteBooks, book), book) = dashboard.favoriteBooks

\* two favourites, the toast about the second: a book was just added to a
\* list that held another, and a third book shares the title of the first
C30_Witness ==
    /\ Len(dashboard.favoriteBooks) = 2
    /\ dashboard.undoToast = Some(dashboard.favoriteBooks[2])
    /\ \E book \in Books :
          /\ book # dashboard.favoriteBooks[1]
          /\ book.title = dashboard.favoriteBooks[1].title

====
